---- MODULE Spec2Model ----
(***************************************************************************)
(* URLSpec: the text-to-model pipeline of @urlspec/language (parse,        *)
(* validate, resolve, print) and the programmatic builder of               *)
(* @urlspec/builder.                                                       *)
(*                                                                         *)
(* A JavaScript string is a sequence of one-character strings, so that     *)
(* regular expressions, substring(), replace() and template literals are   *)
(* computed character by character.  A property that may be undefined is    *)
(* a sequence of length 0 (undefined) or 1 (the value).  A function that   *)
(* can throw returns [ok |-> TRUE, value |-> v] or                         *)
(* [ok |-> FALSE, error |-> e].                                            *)
(***************************************************************************)
EXTENDS Integers, Sequences, FiniteSets

VARIABLES
    input,        \* the source document handed to parse(), <<>> when none
    whitespace,   \* what the lexer does with white space tokens: "skipped" or "hidden"
    document,     \* the LangiumDocument of the last parse()/toAST(), <<>> when none
    resolved,     \* what the last resolve(document) call returned or threw
    printed,      \* what the last print(document) / toString() call returned or threw
    roundtrip,    \* outcome of the print -> parse -> print round trip
    paramTypes,   \* URLSpec builder: Map<string, ParamType>, in insertion order
    globalParams, \* URLSpec builder: ParameterDefinition[]
    pages,        \* URLSpec builder: PageDefinition[]
    history,      \* the addParamType, addGlobalParam and addPage calls made on the builder, in call order
    held,         \* the objects of the resolved model a caller holds: parameter objects and the lists that refer to them
    written,      \* the last writeFile(path, options) call and what it returned or threw
    calls,        \* the parse() calls in flight on the module-level services: input, position, document
    index         \* the services' index of exported symbols, shared by every parse() call

vars == <<input, whitespace, document, resolved, printed, roundtrip, paramTypes, globalParams, pages, history, held, written, calls, index>>

(***************************************************************************)
(* Bounds of the model.                                                    *)
(***************************************************************************)
MaxParamTypes == 2
MaxParams == 2
MaxSegments == 2
MaxBuilderGlobals == 1
MaxBuilderPages == 1
MaxLeading == 3

(***************************************************************************)
(* Characters and the strings the inputs are drawn from.                   *)
(***************************************************************************)
Lower == {"a", "b", "c", "d", "e", "f", "g", "h", "i", "j", "k", "l", "m",
          "n", "o", "p", "q", "r", "s", "t", "u", "v", "w", "x", "y", "z"}
Upper == {"A", "B", "C", "D", "E", "F", "G", "H", "I", "J", "K", "L", "M",
          "N", "O", "P", "Q", "R", "S", "T", "U", "V", "W", "X", "Y", "Z"}
Digit == {"0", "1", "2", "3", "4", "5", "6", "7", "8", "9"}
Quote == "\""

S_string == <<"s", "t", "r", "i", "n", "g">>
S_sortOrder == <<"s", "o", "r", "t", "O", "r", "d", "e", "r">>
S_jobStatus == <<"j", "o", "b", "S", "t", "a", "t", "u", "s">>
S_Sort_Order == <<"S", "o", "r", "t", "_", "O", "r", "d", "e", "r">>
S_missing == <<"m", "i", "s", "s", "i", "n", "g">>
S_job_id == <<"j", "o", "b", "_", "i", "d">>
S_jobId == <<"j", "o", "b", "I", "d">>
S_JobId == <<"J", "o", "b", "I", "d">>
S_q == <<"q">>
S_utm_source == <<"u", "t", "m", "_", "s", "o", "u", "r", "c", "e">>
S_referrer == <<"r", "e", "f", "e", "r", "r", "e", "r">>
S_list == <<"l", "i", "s", "t">>
S_v2 == <<"v", "2">>
S_Detail == <<"D", "e", "t", "a", "i", "l">>
S_detail_view == <<"d", "e", "t", "a", "i", "l", "_", "v", "i", "e", "w">>
S_jobs == <<"j", "o", "b", "s">>
S_x == <<"x">>
S_y == <<"y">>

Quoted(s) == <<Quote>> \o s \o <<Quote>>

SeqsUpTo(S, n) == UNION {[1..k -> S] : k \in 0..n}

SeqMap(Op(_), s) == [i \in DOMAIN s |-> Op(s[i])]

Last(s) == s[Len(s)]

Front(s) == SubSeq(s, 1, Len(s) - 1)

RECURSIVE Flatten(_)
Flatten(ss) == IF ss = <<>> THEN <<>> ELSE Head(ss) \o Flatten(Tail(ss))

RECURSIVE Join(_, _)
Join(ss, sep) ==
    IF ss = <<>> THEN <<>>
    ELSE IF Len(ss) = 1 THEN Head(ss)
    ELSE Head(ss) \o sep \o Join(Tail(ss), sep)

\* String.prototype.trim
NL == "\n"

WhiteSpace == {" ", NL, "\t"}

RECURSIVE TrimStart(_)
TrimStart(s) == IF s # <<>> /\ Head(s) \in WhiteSpace THEN TrimStart(Tail(s)) ELSE s

RECURSIVE TrimEnd(_)
TrimEnd(s) == IF s # <<>> /\ Last(s) \in WhiteSpace THEN TrimEnd(Front(s)) ELSE s

Trim(s) == TrimEnd(TrimStart(s))

Ok(v) == [ok |-> TRUE, value |-> v]

Throw(kind, text, name) == [ok |-> FALSE, error |-> [error |-> kind, text |-> text, name |-> name]]

\* Array.prototype.map with a callback that may throw: the first throw ends the map.
FirstFailure(rs) == CHOOSE i \in DOMAIN rs : ~rs[i].ok /\ \A j \in 1..(i - 1) : rs[j].ok

\* map() over a callback whose failures are caught and skipped.
MapResultsSkipFailures(rs) ==
    LET kept == SelectSeq(rs, LAMBDA r : r.ok)
    IN Ok([i \in DOMAIN kept |-> kept[i].value])

MapResults(rs) ==
    IF \A i \in DOMAIN rs : rs[i].ok
    THEN Ok([i \in DOMAIN rs |-> rs[i].value])
    ELSE rs[FirstFailure(rs)]

(***************************************************************************)
(* ast-builder.ts: the AST node factories.  astType is the node's $type.   *)
(***************************************************************************)
createStringType == [astType |-> "StringKeyword", value |-> S_string]

createStringLiteralType(value) == [astType |-> "StringLiteralType", value |-> value]

createUnionType(values) == [astType |-> "UnionType", types |-> SeqMap(createStringLiteralType, values)]

\* The Reference object holds $refText only: it has no `ref` (linked |-> FALSE).
createTypeReference(refName) == [astType |-> "TypeReference", ref |-> [refText |-> refName, linked |-> FALSE]]

createParamTypeDeclaration(name, type) == [astType |-> "ParamTypeDeclaration", name |-> name, type |-> type]

createParameterDeclaration(name, type, optional) ==
    [astType |-> "ParameterDeclaration", name |-> name, type |-> type,
     optional |-> IF optional THEN <<"?">> ELSE <<>>]

createPathSegment(value, isParameter) ==
    [astType |-> "PathSegment",
     static |-> IF isParameter THEN <<>> ELSE <<value>>,
     parameter |-> IF isParameter THEN <<value>> ELSE <<>>]

\* pathStr.split("/")
RECURSIVE SplitSlash(_, _)
SplitSlash(s, cur) ==
    IF s = <<>> THEN <<cur>>
    ELSE IF Head(s) = "/" THEN <<cur>> \o SplitSlash(Tail(s), <<>>)
    ELSE SplitSlash(Tail(s), Append(cur, Head(s)))

NonEmptyParts(pathStr) == SelectSeq(SplitSlash(pathStr, <<>>), LAMBDA p : Len(p) > 0)

pathPart(part) ==
    IF Head(part) = ":"
    THEN createPathSegment(Tail(part), TRUE)
    ELSE createPathSegment(<<"/">> \o part, FALSE)

parsePath(pathStr) ==
    IF pathStr = <<"/">>
    THEN [astType |-> "Path", root |-> <<"/">>, segments |-> <<>>]
    ELSE [astType |-> "Path", root |-> <<>>, segments |-> SeqMap(pathPart, NonEmptyParts(pathStr))]

createGlobalBlock(parameters) == [astType |-> "GlobalBlock", parameters |-> parameters]

createPageDeclaration(name, pathStr, parameters) ==
    [astType |-> "PageDeclaration", name |-> name, path |-> parsePath(pathStr), parameters |-> parameters]

\* The document has the properties paramTypes, global and pages and no other:
\* `namespace` is undefined on every document.
createURLSpecDocument(pts, global, pgs) ==
    [astType |-> "URLSpecDocument", namespace |-> <<>>, paramTypes |-> pts, global |-> global, pages |-> pgs]

(***************************************************************************)
(* Langium's linker: a Reference made by the parser resolves `ref` by name *)
(* against the document's param type declarations (the first declaration   *)
(* of that name); it is undefined when no declaration has the name, and on *)
(* a Reference object that has no `ref` property at all.                   *)
(***************************************************************************)
DeclaredNames(decls) == {decls[i].name : i \in DOMAIN decls}

FirstDeclaration(decls, name) ==
    decls[CHOOSE i \in DOMAIN decls : decls[i].name = name /\ \A j \in 1..(i - 1) : decls[j].name # name]

RefTarget(decls, ref) ==
    IF ref.linked /\ ref.refText \in DeclaredNames(decls)
    THEN <<FirstDeclaration(decls, ref.refText)>>
    ELSE <<>>

(***************************************************************************)
(* resolver.ts                                                             *)
(***************************************************************************)
\* The call stack is finite: a recursion deeper than StackLimit frames ends in
\* RangeError.  No chain of distinct declarations of the model is that long.
StackLimit == MaxParamTypes + 1

\* value.replace(/^"|"$/g, "")
StripQuotes(value) ==
    LET s1 == IF value # <<>> /\ Head(value) = Quote THEN Tail(value) ELSE value
    IN IF s1 # <<>> /\ Last(s1) = Quote THEN Front(s1) ELSE s1

LiteralValue(t) == StripQuotes(t.value)

\* resolveType that falls back to the string type when a reference has no target.
RECURSIVE resolveTypeDefaultString(_, _, _)
resolveTypeDefaultString(decls, type, depth) ==
    IF depth > StackLimit
    THEN Throw("RangeError", "Maximum call stack size exceeded", <<>>)
    ELSE IF type.astType = "StringKeyword"
    THEN Ok([kind |-> "string"])
    ELSE IF type.astType = "StringLiteralType"
    THEN Ok([kind |-> "literal", value |-> StripQuotes(type.value)])
    ELSE IF type.astType = "UnionType"
    THEN Ok([kind |-> "union", values |-> SeqMap(LiteralValue, type.types)])
    ELSE IF type.astType = "TypeReference"
    THEN IF RefTarget(decls, type.ref) # <<>>
         THEN resolveTypeDefaultString(decls, RefTarget(decls, type.ref)[1].type, depth + 1)
         ELSE Ok([kind |-> "string"])
    ELSE Throw("Error", "Unknown type: ", <<>>)

\* resolveType that looks one declaration deep: a reference to an alias that is
\* itself declared as a reference is handed back as a reference.
resolveTypeOneHop(decls, type, depth) ==
    IF type.astType = "StringKeyword"
    THEN Ok([kind |-> "string"])
    ELSE IF type.astType = "StringLiteralType"
    THEN Ok([kind |-> "literal", value |-> StripQuotes(type.value)])
    ELSE IF type.astType = "UnionType"
    THEN Ok([kind |-> "union", values |-> SeqMap(LiteralValue, type.types)])
    ELSE IF type.astType = "TypeReference"
    THEN IF RefTarget(decls, type.ref) # <<>>
         THEN LET target == RefTarget(decls, type.ref)[1].type
              IN IF target.astType = "TypeReference"
                 THEN Ok([kind |-> "reference", name |-> target.ref.refText])
                 ELSE IF target.astType = "StringKeyword" THEN Ok([kind |-> "string"])
                 ELSE IF target.astType = "StringLiteralType"
                 THEN Ok([kind |-> "literal", value |-> StripQuotes(target.value)])
                 ELSE Ok([kind |-> "union", values |-> SeqMap(LiteralValue, target.types)])
         ELSE Throw("Error", "Unresolved type reference: ", type.ref.refText)
    ELSE Throw("Error", "Unknown type: ", <<>>)

RECURSIVE resolveTypeAt(_, _, _)
resolveTypeAt(decls, type, depth) ==
    IF depth > StackLimit
    THEN Throw("RangeError", "Maximum call stack size exceeded", <<>>)
    ELSE IF type.astType = "StringKeyword"
    THEN Ok([kind |-> "string"])
    ELSE IF type.astType = "StringLiteralType"
    THEN Ok([kind |-> "literal", value |-> StripQuotes(type.value)])
    ELSE IF type.astType = "UnionType"
    THEN Ok([kind |-> "union", values |-> SeqMap(LiteralValue, type.types)])
    ELSE IF type.astType = "TypeReference"
    THEN IF RefTarget(decls, type.ref) # <<>>
         THEN resolveTypeAt(decls, RefTarget(decls, type.ref)[1].type, depth + 1)
         ELSE Throw("Error", "Unresolved type reference: ", type.ref.refText)
    ELSE Throw("Error", "Unknown type: ", <<>>)

resolveType(decls, type) == resolveTypeAt(decls, type, 0)

\* sibling.text.replace(/^\/\/\s*/, "").trim()
CommentText(text) ==
    Trim(IF Len(text) >= 2 /\ text[1] = "/" /\ text[2] = "/" THEN SubSeq(text, 3, Len(text)) ELSE text)

\* (sibling.text.match(/\n/g) || []).length
NewlineCount(text) == Len(SelectSeq(text, LAMBDA ch : ch = NL))

\* The for loop over the previous siblings, from children[i] down to children[0];
\* comments is the array filled by unshift().
RECURSIVE ScanSiblings(_, _, _, _)
ScanSiblings(children, i, foundNonWhitespace, comments) ==
    IF i = 0 THEN comments
    ELSE IF children[i].tokenType = "SL_COMMENT"
    THEN ScanSiblings(children, i - 1, TRUE,
                      IF CommentText(children[i].text) # <<>>
                      THEN <<CommentText(children[i].text)>> \o comments
                      ELSE comments)
    ELSE IF children[i].tokenType = "WS"
    THEN IF NewlineCount(children[i].text) > 1 /\ foundNonWhitespace
         THEN comments
         ELSE ScanSiblings(children, i - 1, foundNonWhitespace, comments)
    ELSE comments

\* The while loop over currentNode and its containers: cstNode[k] holds the
\* siblings before the k-th node of that chain, in the order of `content`.
RECURSIVE ScanContainers(_, _)
ScanContainers(cstNode, k) ==
    IF k > Len(cstNode) THEN <<>>
    ELSE LET comments == ScanSiblings(cstNode[k], Len(cstNode[k]), FALSE, <<>>)
         IN IF Len(comments) > 0 THEN comments ELSE ScanContainers(cstNode, k + 1)

extractDescription(node) ==
    IF "cstNode" \notin DOMAIN node THEN <<>>
    ELSE LET comments == ScanContainers(node.cstNode, 1)
         IN IF Len(comments) > 0 THEN <<Join(comments, <<NL>>)>> ELSE <<>>

\* resolveParameter that tags every parameter as global.
resolveParameterAsGlobal(decls, param, source) ==
    LET t == resolveType(decls, param.type)
    IN IF t.ok
       THEN Ok([name |-> param.name, optional |-> param.optional # <<>>, type |-> t.value, source |-> "global",
                description |-> extractDescription(param)])
       ELSE t

resolveParameter(decls, param, source) ==
    LET t == resolveType(decls, param.type)
    IN IF t.ok
       THEN Ok([name |-> param.name, optional |-> param.optional # <<>>, type |-> t.value, source |-> source,
                description |-> extractDescription(param)])
       ELSE t

Truthy(opt) == opt # <<>> /\ opt[1] # <<>>

resolveSegment(seg) ==
    IF Truthy(seg.static)
    THEN Ok([type |-> "static", value |-> Tail(seg.static[1])])
    ELSE IF Truthy(seg.parameter)
    THEN Ok([type |-> "parameter", value |-> seg.parameter[1]])
    ELSE Throw("Error", "Invalid path segment", <<>>)

\* segmentText without the colon of a parameter segment.
segmentTextStatic(seg) == <<"/">> \o seg.value

segmentText(seg) == IF seg.type = "static" THEN <<"/">> \o seg.value ELSE <<"/", ":">> \o seg.value

\* resolvePage with the merge written the other way round: [...pageParams, ...globalParams].
resolvePageOwnFirst(decls, page, globals) ==
    LET ownParam(p) == resolveParameter(decls, p, "page")
        own == MapResults(SeqMap(ownParam, page.parameters))
        segs == MapResults(SeqMap(resolveSegment, page.path.segments))
    IN IF page.path.root # <<>>
       THEN IF own.ok
            THEN Ok([name |-> page.name, path |-> <<"/">>, pathSegments |-> <<>>,
                     parameters |-> own.value \o globals,
                     description |-> extractDescription(page)])
            ELSE own
       ELSE IF ~segs.ok THEN segs
       ELSE IF ~own.ok THEN own
       ELSE Ok([name |-> page.name,
                path |-> Flatten(SeqMap(segmentText, segs.value)),
                pathSegments |-> segs.value,
                parameters |-> own.value \o globals,
                description |-> extractDescription(page)])

resolvePage(decls, page, globals) ==
    LET ownParam(p) == resolveParameter(decls, p, "page")
        own == MapResults(SeqMap(ownParam, page.parameters))
        segs == MapResults(SeqMap(resolveSegment, page.path.segments))
    IN IF page.path.root # <<>>
       THEN IF own.ok
            THEN Ok([name |-> page.name, path |-> <<"/">>, pathSegments |-> <<>>,
                     parameters |-> globals \o own.value,
                     description |-> extractDescription(page)])
            ELSE own
       ELSE IF ~segs.ok THEN segs
       ELSE IF ~own.ok THEN own
       ELSE Ok([name |-> page.name,
                path |-> Flatten(SeqMap(segmentText, segs.value)),
                pathSegments |-> segs.value,
                parameters |-> globals \o own.value,
                description |-> extractDescription(page)])

resolveParamType(decls, pt) ==
    LET t == resolveType(decls, pt.type)
    IN IF t.ok
       THEN Ok([name |-> pt.name, type |-> t.value, description |-> extractDescription(pt)])
       ELSE t

resolve(doc) ==
    LET model == doc.value
        decls == model.paramTypes
        aliasOf(pt) == resolveParamType(decls, pt)
        globalParam(p) == resolveParameter(decls, p, "global")
        pts == MapResults(SeqMap(aliasOf, decls))
        globals == IF model.global # <<>>
                   THEN MapResults(SeqMap(globalParam, model.global[1].parameters))
                   ELSE Ok(<<>>)
    IN IF ~pts.ok THEN pts
       ELSE IF ~globals.ok THEN globals
       ELSE LET pageOf(page) == resolvePage(decls, page, globals.value)
                pgs == MapResults(SeqMap(pageOf, model.pages))
            IN IF ~pgs.ok THEN pgs
               ELSE Ok([paramTypes |-> pts.value,
                        pages |-> pgs.value,
                        global |-> IF Len(globals.value) > 0 THEN <<globals.value>> ELSE <<>>])

(***************************************************************************)
(* validator.ts                                                            *)
(***************************************************************************)
\* The pattern of snake_case names: /^[a-z][a-z0-9_]*$/.test(name)
snakeCasePattern(name) ==
    /\ name # <<>>
    /\ Head(name) \in Lower
    /\ \A i \in 2..Len(name) : name[i] \in Lower \cup Digit \cup {"_"}

\* /^[a-z][a-zA-Z0-9]*$/.test(name)
camelCasePattern(name) ==
    /\ name # <<>>
    /\ Head(name) \in Lower
    /\ \A i \in 2..Len(name) : name[i] \in Lower \cup Upper \cup Digit

\* accept("error", message, {node, property}); `name` is the text the message
\* template interpolates (empty when it interpolates nothing).
Diagnostic(code, message, name, node, property) ==
    [severity |-> "error", code |-> code, message |-> message, name |-> name,
     node |-> node, property |-> property]

checkParamTypeNaming(paramType, node) ==
    IF ~camelCasePattern(paramType.name)
    THEN <<Diagnostic("paramTypeNaming", "Param type names must be in camelCase format", <<>>, node, "name")>>
    ELSE <<>>

\* new Set<string>() filled by add(): the distinct values in order of first insertion.
RECURSIVE Distinct(_)
Distinct(s) ==
    IF s = <<>> THEN <<>>
    ELSE LET rest == Distinct(Front(s))
         IN IF \E i \in DOMAIN rest : rest[i] = Last(s) THEN rest ELSE Append(rest, Last(s))

segmentParameter(seg) == seg.parameter[1]

\* The path parameters kept in an array instead of a Set.
pathParamsOfArray(page) ==
    SeqMap(segmentParameter, SelectSeq(page.path.segments, LAMBDA seg : Truthy(seg.parameter)))

pathParamsOf(page) ==
    Distinct(SeqMap(segmentParameter, SelectSeq(page.path.segments, LAMBDA seg : Truthy(seg.parameter))))

declaredParamsOf(page) == {page.parameters[i].name : i \in DOMAIN page.parameters}

\* checkPageDeclaration that returns after the first error it reports.
checkPageDeclarationFirstError(page, node) ==
    LET naming == IF ~camelCasePattern(page.name)
                  THEN <<Diagnostic("pageNaming", "Page names must be in camelCase format", <<>>, node, "name")>>
                  ELSE <<>>
        missing == SelectSeq(pathParamsOf(page), LAMBDA n : n \notin declaredParamsOf(page))
        pathError(n) == Diagnostic("pathParameter", "Path parameter must be declared in the parameter block", n, node, "path")
    IN IF naming # <<>> THEN naming
       ELSE IF missing # <<>> THEN <<pathError(missing[1])>>
       ELSE <<>>

\* checkPageDeclaration that also holds the page's parameter names to lower-case
\* letters, digits and underscores.
checkPageDeclarationParameterNaming(page, node) ==
    LET naming == IF ~camelCasePattern(page.name)
                  THEN <<Diagnostic("pageNaming", "Page names must be in camelCase format", <<>>, node, "name")>>
                  ELSE <<>>
        missing == SelectSeq(pathParamsOf(page), LAMBDA n : n \notin declaredParamsOf(page))
        pathError(n) == Diagnostic("pathParameter", "Path parameter must be declared in the parameter block", n, node, "path")
        badNames == SelectSeq(page.parameters, LAMBDA p : \E i \in DOMAIN p.name : p.name[i] \in Upper)
        nameError(p) == Diagnostic("parameterNaming", "Parameter names must be in snake_case format", <<>>, node, "name")
    IN naming \o SeqMap(pathError, missing) \o SeqMap(nameError, badNames)

checkPageDeclaration(page, node) ==
    LET naming == IF ~camelCasePattern(page.name)
                  THEN <<Diagnostic("pageNaming", "Page names must be in camelCase format", <<>>, node, "name")>>
                  ELSE <<>>
        missing == SelectSeq(pathParamsOf(page), LAMBDA n : n \notin declaredParamsOf(page))
        pathError(n) == Diagnostic("pathParameter", "Path parameter must be declared in the parameter block", n, node, "path")
    IN naming \o SeqMap(pathError, missing)

\* ValidationRegistry: the checks registered by registerChecks, run on every
\* node of the type they are registered for.
registerChecks == {"ParamTypeDeclaration", "PageDeclaration"}

\* validateDocument that takes the parameters of the global block as declared
\* in every page.
validateDocumentGlobalsDeclared(doc) ==
    LET model == doc.value
        globals == IF model.global # <<>> THEN model.global[1].parameters ELSE <<>>
        ofParamType(i) == IF "ParamTypeDeclaration" \in registerChecks
                          THEN checkParamTypeNaming(model.paramTypes[i], <<"paramTypes", i>>)
                          ELSE <<>>
        ofPage(i) == IF "PageDeclaration" \in registerChecks
                     THEN checkPageDeclaration([model.pages[i] EXCEPT !.parameters = globals \o @], <<"pages", i>>)
                     ELSE <<>>
    IN Flatten([i \in DOMAIN model.paramTypes |-> ofParamType(i)])
       \o Flatten([i \in DOMAIN model.pages |-> ofPage(i)])

validateDocument(doc) ==
    LET model == doc.value
        ofParamType(i) == IF "ParamTypeDeclaration" \in registerChecks
                          THEN checkParamTypeNaming(model.paramTypes[i], <<"paramTypes", i>>)
                          ELSE <<>>
        ofPage(i) == IF "PageDeclaration" \in registerChecks
                     THEN checkPageDeclaration(model.pages[i], <<"pages", i>>)
                     ELSE <<>>
    IN Flatten([i \in DOMAIN model.paramTypes |-> ofParamType(i)])
       \o Flatten([i \in DOMAIN model.pages |-> ofPage(i)])

(***************************************************************************)
(* printer.ts                                                              *)
(***************************************************************************)
T_namespace == <<"n", "a", "m", "e", "s", "p", "a", "c", "e", " ">>
T_endpoint == <<"e", "n", "d", "p", "o", "i", "n", "t", " ">>
T_param == <<"p", "a", "r", "a", "m", " ">>
T_global_open == <<"g", "l", "o", "b", "a", "l", " ", "{">>
T_page == <<"p", "a", "g", "e", " ">>
T_unknown == <<"u", "n", "k", "n", "o", "w", "n">>
T_eq == <<" ", "=", " ">>
T_union == <<" ", "|", " ">>
T_open == <<" ", "{">>
T_indent == <<" ", " ">>
\* t.value.startsWith('"') ? t.value : `"${t.value}"`
printLiteral(t) == IF t.value # <<>> /\ Head(t.value) = Quote THEN t.value ELSE Quoted(t.value)

printType(type) ==
    IF type.astType = "StringKeyword" THEN S_string
    ELSE IF type.astType = "StringLiteralType" THEN printLiteral(type)
    ELSE IF type.astType = "UnionType" THEN Join(SeqMap(printLiteral, type.types), T_union)
    ELSE IF type.astType = "TypeReference"
    THEN IF type.ref.refText # <<>> THEN type.ref.refText ELSE T_unknown
    ELSE T_unknown

printParameter(param) ==
    param.name \o (IF param.optional # <<>> THEN <<"?">> ELSE <<>>) \o <<":", " ">> \o printType(param.type) \o <<";">>

printPathSegment(segment) ==
    IF Truthy(segment.static) THEN <<"/">> \o segment.static[1]
    ELSE IF Truthy(segment.parameter) THEN <<"/", ":">> \o segment.parameter[1]
    ELSE <<>>

indented(param) == T_indent \o printParameter(param)

printPage(page) ==
    LET path == Flatten(SeqMap(printPathSegment, page.path.segments))
    IN Join(<<T_page \o page.name \o T_eq \o path \o T_open>>
            \o SeqMap(indented, page.parameters)
            \o <<<<"}">>>>, <<NL>>)

printParamType(paramType) == T_param \o paramType.name \o T_eq \o printType(paramType.type) \o <<";">>

pageLines(page) == <<printPage(page), <<>>>>

\* `model.namespace.name` is read first: on a document whose namespace is
\* undefined the read throws TypeError and nothing is printed.
print(doc) ==
    LET model == doc.value
    IN IF model.namespace = <<>>
       THEN Throw("TypeError", "Cannot read properties of undefined (reading 'name')", <<>>)
       ELSE LET lines ==
                    <<T_namespace \o Quoted(model.namespace[1].name) \o <<";">>, <<>>>>
                    \o (IF Len(model.paramTypes) > 0
                        THEN SeqMap(printParamType, model.paramTypes) \o <<<<>>>>
                        ELSE <<>>)
                    \o (IF model.global # <<>>
                        THEN <<T_global_open>> \o SeqMap(indented, model.global[1].parameters)
                             \o <<<<"}">>, <<>>>>
                        ELSE <<>>)
                    \o Flatten(SeqMap(pageLines, model.pages))
            IN Ok(Trim(Join(lines, <<NL>>)) \o <<NL>>)

(***************************************************************************)
(* Source documents.  A syntactically valid document is given by its       *)
(* statements: param type declarations, at most one global block and page  *)
(* declarations, each in source order, with type expressions and path      *)
(* atoms as written.                                                       *)
(***************************************************************************)
TString == [expr |-> "string"]

TLiteral(v) == [expr |-> "literal", lit |-> Quoted(v)]

TUnion(vs) == [expr |-> "union", lits |-> SeqMap(Quoted, vs)]

TRef(n) == [expr |-> "ref", id |-> n]

Static(text) == [atom |-> "static", text |-> text]

Param(id) == [atom |-> "param", id |-> id]

Entry(name, optional, type) == [name |-> name, optional |-> optional, type |-> type]

Source(pts, global, pgs) == [paramTypes |-> pts, global |-> global, pages |-> pgs]

\* The trivia before a declaration, as lines of the source: line comments and blank lines.
CommentLine(text) == [line |-> "comment", text |-> text]

BlankLine == [line |-> "blank"]

Leading(d) == IF "leading" \in DOMAIN d THEN d.leading ELSE <<>>

GlobalLeading(src) == IF "globalLeading" \in DOMAIN src THEN src.globalLeading ELSE <<>>

\* The URL of the endpoint declaration of a source document, if it has one.
Endpoint(src) == IF "endpoint" \in DOMAIN src THEN <<src.endpoint>> ELSE <<>>

AliasNames == {S_sortOrder, S_jobStatus}

AliasTypes == {TString, TLiteral(S_x), TUnion(<<S_x, S_y>>), TRef(S_sortOrder), TRef(S_jobStatus)}

AliasDecls == [name : AliasNames, type : AliasTypes]

UseTypes == {TString, TRef(S_sortOrder), TRef(S_jobStatus), TRef(S_missing)}

\* Alias chains, cycles and undeclared aliases, used from a page and from the global block.
AliasSources ==
    {Source(pts, g, <<[name |-> S_list, path |-> <<Static(S_jobs)>>,
                       parameters |-> <<Entry(S_q, FALSE, t)>>]>>) :
        pts \in SeqsUpTo(AliasDecls, MaxParamTypes),
        g \in {<<>>, <<<<Entry(S_utm_source, TRUE, TString)>>>>, <<<<Entry(S_utm_source, TRUE, TRef(S_sortOrder))>>>>},
        t \in UseTypes}

GlobalEntries == {Entry(S_utm_source, TRUE, TString), Entry(S_referrer, FALSE, TLiteral(S_x))}

PageEntries == {Entry(S_q, TRUE, TString), Entry(S_job_id, FALSE, TString), Entry(S_referrer, FALSE, TRef(S_sortOrder))}

SecondPage == [name |-> S_Detail, path |-> <<Static(S_jobs), Param(S_job_id)>>, parameters |-> <<>>]

\* Global blocks of every length merged into one or two pages.
MergeSources ==
    {Source(<<[name |-> S_sortOrder, type |-> TUnion(<<S_x, S_y>>)]>>, g,
            <<[name |-> S_list, path |-> <<>>, parameters |-> ps]>> \o more) :
        g \in {<<>>} \cup {<<gs>> : gs \in SeqsUpTo(GlobalEntries, MaxParams)},
        ps \in SeqsUpTo(PageEntries, MaxParams),
        more \in {<<>>, <<SecondPage>>}}

CasedNames == {S_job_id, S_jobId, S_JobId}

CasedEntries == {Entry(n, FALSE, TString) : n \in CasedNames}

PathAtoms == {Static(S_jobs), Param(S_job_id), Param(S_jobId)}

PageNames == {S_list, S_Detail, S_detail_view}

\* Declarations and pages named in every casing.
NamingSources ==
    {Source(pts, <<>>, <<[name |-> n, path |-> <<Static(S_jobs)>>, parameters |-> <<>>]>>) :
        pts \in {<<>>, <<[name |-> S_v2, type |-> TString]>>, <<[name |-> S_Sort_Order, type |-> TLiteral(S_x)]>>},
        n \in PageNames}

\* Paths with declared, undeclared and repeated parameters.
PathSources ==
    {Source(pts, <<>>, <<[name |-> n, path |-> path, parameters |-> ps]>>) :
        pts \in {<<>>, <<[name |-> S_Sort_Order, type |-> TString]>>},
        n \in {S_list, S_Detail},
        path \in SeqsUpTo(PathAtoms, MaxSegments),
        ps \in SeqsUpTo(CasedEntries, MaxParams)}

GlobalNamingSources ==
    {Source(<<>>, <<gs>>, <<[name |-> S_list, path |-> <<Static(S_jobs), Param(S_jobId)>>,
                            parameters |-> <<Entry(S_jobId, FALSE, TString)>>]>>) :
        gs \in SeqsUpTo(CasedEntries, MaxParams)}

\* Line comments with and without the space after the marker, with trailing
\* white space, and without text.
K_a == <<"/", "/", " ", "a">>
K_b == <<"/", "/", "b", " ">>
K_none == <<"/", "/">>

TriviaLines == {CommentLine(K_a), CommentLine(K_b), CommentLine(K_none), BlankLine}

ShortLeads == SeqsUpTo(TriviaLines, 1)

\* Comments and blank lines before a param type, a page, a global block and their entries.
ParamTypeTrivia ==
    {Source(<<[name |-> S_sortOrder, type |-> TLiteral(S_x), leading |-> lead]>>, <<>>,
            <<[name |-> S_list, path |-> <<>>, parameters |-> <<>>]>>) :
        lead \in SeqsUpTo(TriviaLines, MaxLeading)}

PageTrivia ==
    {Source(<<[name |-> S_sortOrder, type |-> TLiteral(S_x)]>>, <<>>,
            <<[name |-> S_list, path |-> <<Static(S_jobs)>>, leading |-> lead,
               parameters |-> <<[name |-> S_q, optional |-> TRUE, type |-> TString, leading |-> first],
                                [name |-> S_job_id, optional |-> FALSE, type |-> TString, leading |-> second]>>]>>) :
        lead \in SeqsUpTo(TriviaLines, MaxLeading - 1),
        first \in ShortLeads,
        second \in {<<>>, <<CommentLine(K_b)>>}}

GlobalTrivia ==
    {[paramTypes |-> <<>>, globalLeading |-> lead,
      global |-> <<<<[name |-> S_utm_source, optional |-> TRUE, type |-> TString, leading |-> first]>>>>,
      pages |-> <<[name |-> S_list, path |-> <<>>, parameters |-> <<>>]>>] :
        lead \in ShortLeads, first \in ShortLeads}

\* Documents with an endpoint declaration before every combination of sections.
U_prod == <<"h", "t", "t", "p", "s", ":", "/", "/", "x", ".", "i", "o">>

EndpointSources ==
    {[paramTypes |-> pts, global |-> global, pages |-> pgs, endpoint |-> U_prod] :
        pts \in {<<>>, <<[name |-> S_sortOrder, type |-> TLiteral(S_x)]>>},
        global \in {<<>>, <<<<Entry(S_utm_source, TRUE, TString)>>>>},
        pgs \in {<<>>,
                 <<[name |-> S_list, path |-> <<Static(S_jobs)>>, parameters |-> <<>>]>>,
                 <<[name |-> S_list, path |-> <<Static(S_jobs)>>, parameters |-> <<>>],
                   [name |-> S_detail_view, path |-> <<Static(S_jobs), Param(S_job_id)>>,
                    parameters |-> <<Entry(S_q, TRUE, TString)>>]>>}}

\* A path parameter declared in the global block, in the page's block, in both
\* or in neither.
GlobalPathSources ==
    {Source(<<>>, <<gs>>, <<[name |-> S_list, path |-> <<Static(S_jobs), Param(S_job_id)>>, parameters |-> ps]>>) :
        gs \in {<<Entry(S_job_id, FALSE, TString)>>, <<Entry(S_utm_source, TRUE, TString)>>,
                <<Entry(S_utm_source, TRUE, TString), Entry(S_job_id, FALSE, TString)>>},
        ps \in {<<>>, <<Entry(S_q, TRUE, TString)>>, <<Entry(S_job_id, FALSE, TString)>>,
                <<Entry(S_q, TRUE, TString), Entry(S_job_id, FALSE, TString)>>}}

\* Two pages of one name, and two parameters of one name in one page.
DuplicateSources ==
    {Source(<<>>, <<>>, <<[name |-> n, path |-> <<Static(S_jobs)>>, parameters |-> <<>>],
                          [name |-> m, path |-> <<Static(S_jobs)>>, parameters |-> <<>>]>>) :
        n \in {S_list, S_detail_view}, m \in {S_list, S_detail_view}}
    \cup {Source(<<>>, <<>>, <<[name |-> S_list, path |-> <<Static(S_jobs)>>,
                                parameters |-> <<Entry(a, TRUE, TString), Entry(b, FALSE, TString)>>]>>) :
              a \in {S_q, S_utm_source}, b \in {S_q, S_utm_source}}

DescriptionSources == ParamTypeTrivia \cup PageTrivia \cup GlobalTrivia

Inputs == AliasSources \cup MergeSources \cup NamingSources \cup PathSources \cup GlobalNamingSources
          \cup DescriptionSources \cup EndpointSources \cup DuplicateSources \cup GlobalPathSources

(***************************************************************************)
(* The generated parser (urlspec.langium): a source document becomes the    *)
(* AST.  A static path segment keeps its leading slash, a string literal    *)
(* keeps its quotes, a bare identifier in type position becomes a          *)
(* TypeReference that the linker resolves by name, a path without atoms is *)
(* the root path.                                                          *)
(***************************************************************************)
parseLiteral(lit) == [astType |-> "StringLiteralType", value |-> lit]

parseType(t) ==
    IF t.expr = "string" THEN [astType |-> "StringKeyword", value |-> S_string]
    ELSE IF t.expr = "literal" THEN parseLiteral(t.lit)
    ELSE IF t.expr = "union" THEN [astType |-> "UnionType", types |-> SeqMap(parseLiteral, t.lits)]
    ELSE [astType |-> "TypeReference", ref |-> [refText |-> t.id, linked |-> TRUE]]

parseEntry(e) ==
    [astType |-> "ParameterDeclaration", name |-> e.name, type |-> parseType(e.type),
     optional |-> IF e.optional THEN <<"?">> ELSE <<>>]

parseAtom(a) ==
    IF a.atom = "static"
    THEN [astType |-> "PathSegment", static |-> <<<<"/">> \o a.text>>, parameter |-> <<>>]
    ELSE [astType |-> "PathSegment", static |-> <<>>, parameter |-> <<a.id>>]

parsePathAtoms(atoms) ==
    IF atoms = <<>>
    THEN [astType |-> "Path", root |-> <<"/">>, segments |-> <<>>]
    ELSE [astType |-> "Path", root |-> <<>>, segments |-> SeqMap(parseAtom, atoms)]

\* Leaf nodes of the CST.  A line comment is a hidden token; white space is a
\* token of the CST when the lexer keeps it (whitespace = "hidden") and no
\* node at all when the lexer skips it.  Any other node: a keyword, a brace, a
\* declaration.
CommentNode(text) == [tokenType |-> "SL_COMMENT", text |-> text]

OtherNode == [tokenType |-> "none", text |-> <<>>]

WsNodes(newlines, indent, ws) ==
    IF ws = "hidden" /\ newlines + Len(indent) > 0
    THEN <<[tokenType |-> "WS", text |-> [i \in 1..newlines |-> NL] \o indent]>>
    ELSE <<>>

\* The tokens of the lines before a declaration; newlines counts the line
\* ends since the last token.
RECURSIVE TriviaNodes(_, _, _, _)
TriviaNodes(lines, newlines, indent, ws) ==
    IF lines = <<>> THEN WsNodes(newlines, indent, ws)
    ELSE IF Head(lines).line = "blank" THEN TriviaNodes(Tail(lines), newlines + 1, indent, ws)
    ELSE WsNodes(newlines, indent, ws) \o <<CommentNode(Head(lines).text)>>
         \o TriviaNodes(Tail(lines), 1, indent, ws)

\* The siblings before a top-level declaration, and before an entry of a block.
RootSiblings(lead, first, ws) ==
    IF first THEN TriviaNodes(lead, 0, <<>>, ws) ELSE <<OtherNode>> \o TriviaNodes(lead, 1, <<>>, ws)

BlockSiblings(lead, ws) == <<OtherNode>> \o TriviaNodes(lead, 1, T_indent, ws)

parseParamType(d) == [astType |-> "ParamTypeDeclaration", name |-> d.name, type |-> parseType(d.type)]

parseGlobal(gs) == [astType |-> "GlobalBlock", parameters |-> SeqMap(parseEntry, gs)]

parsePage(pg) ==
    [astType |-> "PageDeclaration", name |-> pg.name, path |-> parsePathAtoms(pg.path),
     parameters |-> SeqMap(parseEntry, pg.parameters)]

parseSource(src) ==
    [astType |-> "URLSpecDocument", namespace |-> <<>>,
     paramTypes |-> SeqMap(parseParamType, src.paramTypes),
     global |-> SeqMap(parseGlobal, src.global),
     pages |-> SeqMap(parsePage, src.pages)]

\* $cstNode of the declarations: the siblings before the node, then those
\* before its container; the root node has no container.
WithCst(node, cstNode) == [x \in DOMAIN node \cup {"cstNode"} |-> IF x = "cstNode" THEN cstNode ELSE node[x]]

EntriesWithCst(nodes, entries, outer, ws) ==
    [i \in DOMAIN nodes |-> WithCst(nodes[i], <<BlockSiblings(Leading(entries[i]), ws), outer>>)]

\* The document of a source with an endpoint declaration has the URL as its
\* `endpoint`; the property is undefined on every other document.
WithEndpoint(node, url) == [x \in DOMAIN node \cup {"endpoint"} |-> IF x = "endpoint" THEN url ELSE node[x]]

parseDocument(src, ws) ==
    LET ast == parseSource(src)
        nTypes == Len(src.paramTypes)
        nGlobal == Len(src.global)
        typeCst(i) == <<RootSiblings(Leading(src.paramTypes[i]), i = 1, ws)>>
        globalCst == <<RootSiblings(GlobalLeading(src), nTypes = 0, ws)>>
        pageCst(k) == <<RootSiblings(Leading(src.pages[k]), nTypes + nGlobal + k = 1, ws)>>
        globalOf(i) ==
            [WithCst(ast.global[i], globalCst)
                EXCEPT !.parameters = EntriesWithCst(ast.global[i].parameters, src.global[i], globalCst[1], ws)]
        pageOf(k) ==
            [WithCst(ast.pages[k], pageCst(k))
                EXCEPT !.parameters = EntriesWithCst(ast.pages[k].parameters, src.pages[k].parameters, pageCst(k)[1], ws)]
        declarations ==
            [ast EXCEPT !.paramTypes = [i \in DOMAIN ast.paramTypes |-> WithCst(ast.paramTypes[i], typeCst(i))],
                        !.global = [i \in DOMAIN ast.global |-> globalOf(i)],
                        !.pages = [k \in DOMAIN ast.pages |-> pageOf(k)]]
    IN IF Endpoint(src) = <<>> THEN declarations ELSE WithEndpoint(declarations, src.endpoint)

LangiumDocument(value, lexerErrors, parserErrors, diagnostics) ==
    [value |-> value, lexerErrors |-> lexerErrors, parserErrors |-> parserErrors, diagnostics |-> diagnostics]

(***************************************************************************)
(* parser.ts: parse() builds the document and sets its diagnostics.        *)
(***************************************************************************)
parse(src, ws) ==
    LET doc == LangiumDocument(parseDocument(src, ws), 0, 0, <<>>)
    IN [doc EXCEPT !.diagnostics = validateDocument(doc)]

(***************************************************************************)
(* Parsing text.  The grammar's concrete syntax of a source document:      *)
(*   param NAME = TYPE;   global { ENTRY* }   page NAME = PATH { ENTRY* }  *)
(* with PATH either "/" or ("/" atom)+, ENTRY NAME "?"? ":" TYPE ";".      *)
(* White space between tokens is free, so texts are compared without it.   *)
(* A text that is the concrete syntax of no source document has a parser   *)
(* error.                                                                  *)
(***************************************************************************)
typeText(t) ==
    IF t.expr = "string" THEN S_string
    ELSE IF t.expr = "literal" THEN t.lit
    ELSE IF t.expr = "union" THEN Join(t.lits, T_union)
    ELSE t.id

lineText(l) == IF l.line = "comment" THEN l.text \o <<NL>> ELSE <<NL>>

leadingText(lines) == Flatten(SeqMap(lineText, lines))

entryText(e) == leadingText(Leading(e)) \o e.name \o (IF e.optional THEN <<"?">> ELSE <<>>) \o <<":", " ">> \o typeText(e.type) \o <<";">>

atomText(a) == IF a.atom = "static" THEN <<"/">> \o a.text ELSE <<"/", ":">> \o a.id

pathText(atoms) == IF atoms = <<>> THEN <<"/">> ELSE Flatten(SeqMap(atomText, atoms))

paramTypeText(d) == leadingText(Leading(d)) \o T_param \o d.name \o T_eq \o typeText(d.type) \o <<";">>

globalText(gs) == T_global_open \o Flatten(SeqMap(entryText, gs)) \o <<"}">>

pageText(pg) == leadingText(Leading(pg)) \o T_page \o pg.name \o T_eq \o pathText(pg.path) \o T_open \o Flatten(SeqMap(entryText, pg.parameters)) \o <<"}">>

endpointText(url) == T_endpoint \o Quoted(url) \o <<";">>

sourceText(src) ==
    Flatten(SeqMap(endpointText, Endpoint(src)))
    \o Flatten(SeqMap(paramTypeText, src.paramTypes))
    \o leadingText(GlobalLeading(src))
    \o Flatten(SeqMap(globalText, src.global))
    \o Flatten(SeqMap(pageText, src.pages))

Squeeze(text) == SelectSeq(text, LAMBDA c : c \notin WhiteSpace)

parseText(text, ws) ==
    LET matches == {src \in Inputs : Squeeze(sourceText(src)) = Squeeze(text)}
    IN IF matches # {}
       THEN parse(CHOOSE src \in matches : TRUE, ws)
       ELSE LangiumDocument(parseSource(Source(<<>>, <<>>, <<>>)), 0, 1, <<>>)

(***************************************************************************)
(* printer.test.ts, "should print and parse roundtrip": print the parsed   *)
(* document, parse the printed text, print again.  A throw ends the run.   *)
(***************************************************************************)
RoundTripOf(doc1, ws) ==
    LET printed1 == print(doc1)
    IN IF ~printed1.ok
       THEN [status |-> "threw", error |-> printed1.error]
       ELSE LET doc2 == parseText(printed1.value, ws)
                printed2 == print(doc2)
            IN IF ~printed2.ok
               THEN [status |-> "threw", error |-> printed2.error]
               ELSE [status |-> "done", printed |-> printed1.value,
                     lexerErrors |-> doc2.lexerErrors, parserErrors |-> doc2.parserErrors,
                     printed2 |-> printed2.value]

(***************************************************************************)
(* builder/src/index.ts: class URLSpec.  A ParamType is a string or an     *)
(* array of strings.                                                       *)
(***************************************************************************)
JsString(str) == [js |-> "string", str |-> str]

JsArray(items) == [js |-> "array", items |-> items]

\* Map.prototype.set: a new key is appended, an existing key keeps its place.
MapSet(map, name, type) ==
    IF \E i \in DOMAIN map : map[i].name = name
    THEN [i \in DOMAIN map |-> IF map[i].name = name THEN [name |-> name, type |-> type] ELSE map[i]]
    ELSE Append(map, [name |-> name, type |-> type])

MapHas(map, name) == \E i \in DOMAIN map : map[i].name = name

\* addParamType that moves a name set again to the end:
\* this.paramTypes.delete(name); this.paramTypes.set(name, type).
addParamTypeMoveLast(map, name, type) ==
    Append(SelectSeq(map, LAMBDA e : e.name # name), [name |-> name, type |-> type])

\* this.paramTypes.set(name, type), this.globalParams.push(param), this.pages.push(page)
addParamType(map, name, type) == MapSet(map, name, type)

addGlobalParam(globals, param) == Append(globals, param)

\* addPage that puts the page first: this.pages.unshift(page).
addPageUnshift(pgs, page) == <<page>> \o pgs

addPage(pgs, page) == Append(pgs, page)

\* buildType without the look-up of the registered param types.
buildTypeLiteral(map, type) ==
    IF type.js = "string"
    THEN IF type.str = S_string THEN createStringType
         ELSE createStringLiteralType(type.str)
    ELSE IF type.js = "array" THEN createUnionType(type.items)
    ELSE createStringType

buildType(map, type) ==
    IF type.js = "string"
    THEN IF type.str = S_string THEN createStringType
         ELSE IF MapHas(map, type.str) THEN createTypeReference(type.str)
         ELSE createStringLiteralType(type.str)
    ELSE IF type.js = "array" THEN createUnionType(type.items)
    ELSE createStringType

buildParameter(map, param) ==
    createParameterDeclaration(param.name, buildType(map, param.type), param.optional)

toAST(map, globals, pgs) ==
    LET paramTypeOf(e) == createParamTypeDeclaration(e.name, buildType(map, e.type))
        parameterOf(p) == buildParameter(map, p)
        pageOf(page) ==
            createPageDeclaration(page.name, page.path,
                IF page.parameters # <<>> THEN SeqMap(parameterOf, page.parameters[1]) ELSE <<>>)
    IN createURLSpecDocument(
           SeqMap(paramTypeOf, map),
           IF Len(globals) > 0 THEN <<createGlobalBlock(SeqMap(parameterOf, globals))>> ELSE <<>>,
           SeqMap(pageOf, pgs))

\* The minimal LangiumDocument wrapper { parseResult: { value: ast } }.
wrapAST(ast) == LangiumDocument(ast, 0, 0, <<>>)

toString(map, globals, pgs) == print(wrapAST(toAST(map, globals, pgs)))

\* node:path on a POSIX system.  normalizeString: the parts of a path without
\* empty and "." parts, each ".." part taking away the part before it.
RECURSIVE normalizeString(_, _, _)
normalizeString(parts, out, allowAboveRoot) ==
    IF parts = <<>> THEN out
    ELSE IF Head(parts) = <<>> \/ Head(parts) = <<".">>
    THEN normalizeString(Tail(parts), out, allowAboveRoot)
    ELSE IF Head(parts) = <<".", ".">>
    THEN IF out # <<>> /\ Last(out) # <<".", ".">>
         THEN normalizeString(Tail(parts), Front(out), allowAboveRoot)
         ELSE IF allowAboveRoot
         THEN normalizeString(Tail(parts), Append(out, Head(parts)), allowAboveRoot)
         ELSE normalizeString(Tail(parts), out, allowAboveRoot)
    ELSE normalizeString(Tail(parts), Append(out, Head(parts)), allowAboveRoot)

isAbsolute(path) == path # <<>> /\ Head(path) = "/"

normalize(path) ==
    IF path = <<>> THEN <<".">>
    ELSE LET trailing == Last(path) = "/"
             body == Join(normalizeString(SplitSlash(path, <<>>), <<>>, ~isAbsolute(path)), <<"/">>)
         IN IF body = <<>>
            THEN IF isAbsolute(path) THEN <<"/">> ELSE IF trailing THEN <<".", "/">> ELSE <<".">>
            ELSE (IF isAbsolute(path) THEN <<"/">> ELSE <<>>) \o body \o (IF trailing THEN <<"/">> ELSE <<>>)

\* process.cwd()
Cwd == <<"/", "b", "/", "w">>

\* path.resolve(path): the absolute path, without a trailing slash.
pathResolve(path) ==
    LET full == IF isAbsolute(path) THEN path ELSE Cwd \o <<"/">> \o path
    IN <<"/">> \o Join(normalizeString(SplitSlash(full, <<>>), <<>>, FALSE), <<"/">>)

\* String.prototype.includes and String.prototype.startsWith
Includes(s, t) == \E i \in 0..(Len(s) - Len(t)) : SubSeq(s, i + 1, i + Len(t)) = t

StartsWith(s, t) == Len(t) <= Len(s) /\ SubSeq(s, 1, Len(t)) = t

sensitiveDirectories ==
    {<<"/", "e", "t", "c">>, <<"/", "s", "y", "s">>, <<"/", "p", "r", "o", "c">>, <<"/", "r", "o", "o", "t">>}

\* validateFilePath without the check of the sensitive directories.
validateFilePathTraversalOnly(path, allowedBaseDir) ==
    LET normalizedPath == normalize(path)
        resolvedPath == pathResolve(normalizedPath)
    IN IF Includes(normalizedPath, <<".", ".">>)
       THEN Throw("Error", "path traversal detected", path)
       ELSE IF Truthy(allowedBaseDir) /\ ~StartsWith(resolvedPath, pathResolve(allowedBaseDir[1]))
       THEN Throw("Error", "outside allowed directory", path)
       ELSE Ok(path)

validateFilePath(path, allowedBaseDir) ==
    LET normalizedPath == normalize(path)
        resolvedPath == pathResolve(normalizedPath)
    IN IF Includes(normalizedPath, <<".", ".">>)
       THEN Throw("Error", "path traversal detected", path)
       ELSE IF \E dir \in sensitiveDirectories : StartsWith(resolvedPath, dir)
       THEN Throw("Error", "cannot write to sensitive directory", path)
       ELSE IF Truthy(allowedBaseDir) /\ ~StartsWith(resolvedPath, pathResolve(allowedBaseDir[1]))
       THEN Throw("Error", "outside allowed directory", path)
       ELSE Ok(path)

\* The file is written when the path is valid and toString() returns.
writeFile(path, allowedBaseDir, map, globals, pgs) ==
    LET valid == validateFilePath(path, allowedBaseDir)
    IN IF ~valid.ok THEN valid ELSE toString(map, globals, pgs)

\* writeFileSync(path, content, "utf-8"): the file the call leaves behind, none
\* when an earlier statement threw.
writeFileSync(path, content) == IF content.ok THEN <<[path |-> path, content |-> content.value]>> ELSE <<>>

F_inside == <<"/", "b", "/", "f">>
F_sibling == <<"/", "b", "2", "/", "f">>
F_outside == <<"/", "t", "/", "f">>
F_back == <<"/", "b", "/", ".", ".", "/", "t", "/", "f">>
F_up == <<".", ".", "/", "f">>
F_etc == <<"/", "e", "t", "c", "/", "f">>
F_relative == <<"f">>
F_dotted == <<"/", "b", "/", "a", ".", ".", "b">>
F_obfuscated == <<"/", "t", "/", ".", "/", ".", ".", "/", "e", "t", "c", "/", "f">>

FilePaths == {F_inside, F_sibling, F_outside, F_back, F_up, F_etc, F_relative, F_dotted, F_obfuscated}

\* options: none, { allowedBaseDir: "/b" }, { allowedBaseDir: "/b/" }
BaseDirs == {<<>>, <<<<"/", "b">>>>, <<<<"/", "b", "/">>>>}

BuilderTypes == {JsString(S_string), JsString(S_sortOrder), JsString(S_jobStatus), JsArray(<<S_x, S_y>>)}

BuilderGlobals ==
    {[name |-> S_utm_source, type |-> JsString(S_string), optional |-> TRUE],
     [name |-> S_referrer, type |-> JsString(S_sortOrder), optional |-> FALSE]}

P_root == <<"/">>
P_empty == <<>>
P_detail == <<"/", "j", "o", "b", "s", "/", ":", "j", "o", "b", "_", "i", "d">>
P_colon == <<"/", ":">>

BuilderPages ==
    {[name |-> S_list, path |-> P_root, parameters |-> <<>>],
     [name |-> S_list, path |-> P_empty, parameters |-> <<>>],
     [name |-> S_list, path |-> P_colon, parameters |-> <<>>],
     [name |-> S_Detail, path |-> P_detail,
      parameters |-> <<<<[name |-> S_q, type |-> JsString(S_sortOrder), optional |-> TRUE]>>>>],
     [name |-> S_list, path |-> P_detail,
      parameters |-> <<<<[name |-> S_job_id, type |-> JsString(S_string), optional |-> FALSE]>>>>]}

(***************************************************************************)
(* The state machine.  A run is either one parse of a source document      *)
(* followed by calls on the parsed document, or a session on a URLSpec     *)
(* builder.  resolved, printed and roundtrip hold what the calls made on   *)
(* the current document returned; a builder mutation starts afresh.        *)
(***************************************************************************)
Init ==
    /\ input \in {<<>>} \cup {<<src>> : src \in Inputs}
    /\ whitespace \in {"skipped", "hidden"}
    /\ document = <<>>
    /\ resolved = <<>>
    /\ printed = <<>>
    /\ roundtrip = <<>>
    /\ paramTypes = <<>>
    /\ globalParams = <<>>
    /\ pages = <<>>
    /\ history = <<>>
    /\ held = <<>>
    /\ written = <<>>
    /\ calls = <<>>
    /\ index = {}

builder == <<paramTypes, globalParams, pages>>

services == <<calls, index>>

Parse ==
    /\ input # <<>>
    /\ document = <<>>
    /\ document' = <<parse(input[1], whitespace)>>
    /\ UNCHANGED <<services, held, written, history, input, whitespace, resolved, printed, roundtrip, builder>>

Resolve ==
    /\ document # <<>>
    /\ resolved = <<>>
    /\ resolved' = <<resolve(document[1])>>
    /\ UNCHANGED <<services, held, written, history, input, whitespace, document, printed, roundtrip, builder>>

RoundTrip ==
    /\ input # <<>>
    /\ document # <<>>
    /\ roundtrip = <<>>
    /\ printed' = <<print(document[1])>>
    /\ roundtrip' = <<RoundTripOf(document[1], whitespace)>>
    /\ UNCHANGED <<services, held, written, history, input, whitespace, document, resolved, builder>>

AddParamType ==
    /\ input = <<>>
    /\ \E name \in AliasNames, type \in BuilderTypes :
           paramTypes' = addParamType(paramTypes, name, type)
    /\ document' = <<>> /\ resolved' = <<>> /\ printed' = <<>>
    /\ UNCHANGED <<services, held, written, history, input, whitespace, roundtrip, globalParams, pages>>

AddGlobalParam ==
    /\ input = <<>>
    /\ Len(globalParams) < MaxBuilderGlobals
    /\ \E param \in BuilderGlobals : globalParams' = addGlobalParam(globalParams, param)
    /\ document' = <<>> /\ resolved' = <<>> /\ printed' = <<>>
    /\ UNCHANGED <<services, held, written, history, input, whitespace, roundtrip, paramTypes, pages>>

AddPage ==
    /\ input = <<>>
    /\ Len(pages) < MaxBuilderPages
    /\ \E page \in BuilderPages : pages' = addPage(pages, page)
    /\ document' = <<>> /\ resolved' = <<>> /\ printed' = <<>>
    /\ UNCHANGED <<services, held, written, history, input, whitespace, roundtrip, paramTypes, globalParams>>

ToAST ==
    /\ input = <<>>
    /\ document = <<>>
    /\ document' = <<wrapAST(toAST(paramTypes, globalParams, pages))>>
    /\ UNCHANGED <<services, held, written, history, input, whitespace, resolved, printed, roundtrip, builder>>

ToString ==
    /\ input = <<>>
    /\ printed = <<>>
    /\ printed' = <<toString(paramTypes, globalParams, pages)>>
    /\ UNCHANGED <<services, held, written, history, input, whitespace, document, resolved, roundtrip, builder>>

WriteFile ==
    /\ input = <<>>
    /\ written = <<>>
    /\ \E path \in FilePaths, allowedBaseDir \in BaseDirs :
           written' = <<[path |-> path, allowedBaseDir |-> allowedBaseDir,
                         valid |-> validateFilePath(path, allowedBaseDir),
                         result |-> writeFile(path, allowedBaseDir, paramTypes, globalParams, pages),
                         file |-> writeFileSync(path, writeFile(path, allowedBaseDir, paramTypes, globalParams, pages))]>>
    /\ UNCHANGED <<services, held, history, input, whitespace, document, resolved, printed, roundtrip, builder>>

Next ==
    \/ Parse
    \/ Resolve
    \/ RoundTrip
    \/ AddParamType
    \/ AddGlobalParam
    \/ AddPage
    \/ ToAST
    \/ ToString

Spec == Init /\ [][Next]_vars

\* Sequences of calls on one builder.  Each add call is recorded in `history`;
\* toAST() and toString() may be called at any point, any number of times, and
\* `document` and `printed` hold what the last such call gave since the last
\* add call.
MaxCalls == 3

InitBuilder == Init /\ input = <<>> /\ whitespace = "skipped"

\* Whether toAST or toString has been called since the builder was constructed.
Observed == document # <<>> \/ printed # <<>> \/ (history # <<>> /\ Last(history).observed)

CallAddParamType ==
    /\ Len(history) < MaxCalls
    /\ \E name \in AliasNames, type \in BuilderTypes :
           /\ paramTypes' = addParamType(paramTypes, name, type)
           /\ history' = Append(history, [op |-> "addParamType", name |-> name, type |-> type, observed |-> Observed])
    /\ document' = <<>> /\ printed' = <<>>
    /\ UNCHANGED <<services, held, written, input, whitespace, resolved, roundtrip, globalParams, pages>>

CallAddGlobalParam ==
    /\ Len(history) < MaxCalls
    /\ \E param \in BuilderGlobals :
           /\ globalParams' = addGlobalParam(globalParams, param)
           /\ history' = Append(history, [op |-> "addGlobalParam", param |-> param, observed |-> Observed])
    /\ document' = <<>> /\ printed' = <<>>
    /\ UNCHANGED <<services, held, written, input, whitespace, resolved, roundtrip, paramTypes, pages>>

CallAddPage ==
    /\ Len(history) < MaxCalls
    /\ \E page \in BuilderPages :
           /\ pages' = addPage(pages, page)
           /\ history' = Append(history, [op |-> "addPage", page |-> page, observed |-> Observed])
    /\ document' = <<>> /\ printed' = <<>>
    /\ UNCHANGED <<services, held, written, input, whitespace, resolved, roundtrip, paramTypes, globalParams>>

\* toAST that consumes the global parameters it has emitted.
CallToASTDraining ==
    /\ document' = <<wrapAST(toAST(paramTypes, globalParams, pages))>>
    /\ globalParams' = <<>>
    /\ UNCHANGED <<services, held, written, history, input, whitespace, resolved, printed, roundtrip, paramTypes, pages>>

CallToAST ==
    /\ document' = <<wrapAST(toAST(paramTypes, globalParams, pages))>>
    /\ UNCHANGED <<services, held, written, history, input, whitespace, resolved, printed, roundtrip, builder>>

CallToString ==
    /\ printed' = <<toString(paramTypes, globalParams, pages)>>
    /\ UNCHANGED <<services, held, written, history, input, whitespace, document, resolved, roundtrip, builder>>

NextBuilder ==
    \/ CallAddParamType
    \/ CallAddGlobalParam
    \/ CallAddPage
    \/ CallToAST
    \/ CallToString

SpecBuilder == InitBuilder /\ [][NextBuilder]_vars

\* The objects of the resolved model.  resolve() makes one object per global
\* parameter (the array globalParams) and resolvePage() one object per
\* parameter of the page; the parameters array of a page is a new array,
\* [...globalParams, ...pageParams], whose first elements are the objects of
\* globalParams themselves, and `global` is the array globalParams.  Objects
\* are numbered in the order they are made; `out` is the value resolve() returns.
RECURSIVE OwnBefore(_, _, _)
OwnBefore(pgs, k, nGlobals) ==
    IF k = 1 THEN 0 ELSE OwnBefore(pgs, k - 1, nGlobals) + Len(pgs[k - 1].parameters) - nGlobals

resolveObjects(out) ==
    LET nGlobals == IF out.global # <<>> THEN Len(out.global[1]) ELSE 0
        globalIds == [i \in 1..nGlobals |-> i]
        ownIds(k) == [j \in 1..(Len(out.pages[k].parameters) - nGlobals) |->
                         nGlobals + OwnBefore(out.pages, k, nGlobals) + j]
        total == nGlobals + OwnBefore(out.pages, Len(out.pages) + 1, nGlobals)
        owner(id) == CHOOSE k \in DOMAIN out.pages : \E j \in DOMAIN ownIds(k) : ownIds(k)[j] = id
        object(id) ==
            IF id <= nGlobals THEN out.global[1][id]
            ELSE out.pages[owner(id)].parameters[id - OwnBefore(out.pages, owner(id), nGlobals)]
    IN [objects |-> [id \in 1..total |-> object(id)],
        global |-> IF nGlobals > 0 THEN <<globalIds>> ELSE <<>>,
        pages |-> [k \in DOMAIN out.pages |-> globalIds \o ownIds(k)],
        changed |-> <<>>]

\* A caller holding the resolved model of a parsed document and then changing one parameter entry
\* that it reaches through the parameters list of a page:
\* spec.pages[k].parameters[i].optional = !spec.pages[k].parameters[i].optional
InitCaller == Init /\ input # <<>> /\ input[1] \in MergeSources /\ whitespace = "skipped"

ResolveObjects ==
    /\ resolved # <<>>
    /\ resolved[1].ok
    /\ held = <<>>
    /\ held' = <<resolveObjects(resolved[1].value)>>
    /\ UNCHANGED <<services, written, history, input, whitespace, document, resolved, printed, roundtrip, builder>>

ChangeEntry ==
    /\ held # <<>>
    /\ held[1].changed = <<>>
    /\ \E k \in DOMAIN held[1].pages :
           \E i \in DOMAIN held[1].pages[k] :
               held' = <<[held[1] EXCEPT !.objects[held[1].pages[k][i]].optional = ~@,
                                          !.changed = <<k, i>>]>>
    /\ UNCHANGED <<services, written, history, input, whitespace, document, resolved, printed, roundtrip, builder>>

NextCaller ==
    \/ Parse
    \/ Resolve
    \/ ResolveObjects
    \/ ChangeEntry

SpecCaller == InitCaller /\ [][NextCaller]_vars

\* The builder writing its document to a file.
InitWrite == Init /\ input = <<>>

NextWrite ==
    \/ AddPage
    \/ WriteFile

SpecWrite == InitWrite /\ [][NextWrite]_vars

(***************************************************************************)
(* parser.ts, concurrent calls.  Every parse() call runs on the one        *)
(* services instance made when the module loads.  parseDocument() makes    *)
(* the document from the text and registers it with the services, then     *)
(* builds it in phases with an await between them: the document's param    *)
(* type declarations are exported to the services' index, then its         *)
(* references are linked, by name, first against its own declarations and  *)
(* then against every symbol of the index; validateDocument() then reports *)
(* the references left without a target and runs the registered checks.    *)
(* Nothing removes a document from the services.                           *)
(***************************************************************************)
Calls == 1..2

S_DeclaresAlias ==
    Source(<<[name |-> S_sortOrder, type |-> TLiteral(S_x)]>>, <<>>,
           <<[name |-> S_list, path |-> <<Static(S_jobs)>>, parameters |-> <<>>]>>)

S_UsesOwnAlias ==
    Source(<<[name |-> S_sortOrder, type |-> TString]>>, <<>>,
           <<[name |-> S_list, path |-> <<Static(S_jobs)>>,
              parameters |-> <<Entry(S_q, TRUE, TRef(S_sortOrder))>>]>>)

S_UsesUndeclared ==
    Source(<<>>, <<>>,
           <<[name |-> S_Detail, path |-> <<Static(S_jobs), Param(S_job_id)>>,
              parameters |-> <<Entry(S_q, TRUE, TRef(S_sortOrder))>>]>>)

S_NoAlias ==
    Source(<<>>, <<<<Entry(S_utm_source, TRUE, TString)>>>>,
           <<[name |-> S_list, path |-> <<Static(S_jobs)>>, parameters |-> <<Entry(S_q, FALSE, TString)>>]>>)

ConcurrentSources == {S_DeclaresAlias, S_UsesOwnAlias, S_UsesUndeclared, S_NoAlias}

\* The names the type references of a document refer to.
ReferencesOf(ast) ==
    LET types == {ast.paramTypes[i].type : i \in DOMAIN ast.paramTypes}
                 \cup UNION {{g.parameters[j].type : j \in DOMAIN g.parameters} :
                                g \in {ast.global[i] : i \in DOMAIN ast.global}}
                 \cup UNION {{pg.parameters[j].type : j \in DOMAIN pg.parameters} :
                                pg \in {ast.pages[k] : k \in DOMAIN ast.pages}}
    IN {t.ref.refText : t \in {u \in types : u.astType = "TypeReference"}}

\* IndexManager.updateContent: the named declarations a document exports.
ExportsOf(c, ast) == {[uri |-> c, name |-> ast.paramTypes[i].name] : i \in DOMAIN ast.paramTypes}

\* ScopeProvider.getScope: the document's own declarations come before the
\* symbols of the index.
LinkTarget(c, ast, name, symbols) ==
    LET global == {e \in symbols : e.name = name}
    IN IF name \in DeclaredNames(ast.paramTypes) THEN <<[uri |-> c, name |-> name]>>
       ELSE IF global # {} THEN <<CHOOSE e \in global : \A f \in global : e.uri <= f.uri>>
       ELSE <<>>

Unlinked(links) == {name \in DOMAIN links : links[name] = <<>>}

Call(src) == [src |-> src, pc |-> "start", ast |-> <<>>, links |-> <<>>, diagnostics |-> <<>>]

InitParses ==
    /\ input = <<>>
    /\ whitespace \in {"skipped", "hidden"}
    /\ document = <<>>
    /\ resolved = <<>>
    /\ printed = <<>>
    /\ roundtrip = <<>>
    /\ paramTypes = <<>>
    /\ globalParams = <<>>
    /\ pages = <<>>
    /\ history = <<>>
    /\ held = <<>>
    /\ written = <<>>
    /\ calls \in {<<Call(a), Call(b)>> : a, b \in ConcurrentSources} \ {<<Call(a), Call(a)>> : a \in ConcurrentSources}
    /\ index = {}

single == <<input, whitespace, document, resolved, printed, roundtrip, builder, written, history, held>>

\* LangiumDocumentFactory.fromString: the document of the call's own text.
CreateDocument(c) ==
    /\ calls[c].pc = "start"
    /\ calls' = [calls EXCEPT ![c].pc = "parsed", ![c].ast = <<parseDocument(calls[c].src, whitespace)>>]
    /\ UNCHANGED <<index, single>>

IndexContent(c) ==
    /\ calls[c].pc = "parsed"
    /\ index' = index \cup ExportsOf(c, calls[c].ast[1])
    /\ calls' = [calls EXCEPT ![c].pc = "indexed"]
    /\ UNCHANGED single

Link(c) ==
    /\ calls[c].pc = "indexed"
    /\ calls' = [calls EXCEPT ![c].pc = "linked",
                              ![c].links = <<[name \in ReferencesOf(calls[c].ast[1]) |->
                                                 LinkTarget(c, calls[c].ast[1], name, index)]>>]
    /\ UNCHANGED <<index, single>>

Validate(c) ==
    /\ calls[c].pc = "linked"
    /\ calls' = [calls EXCEPT ![c].pc = "done",
                              ![c].diagnostics =
                                  <<[linking |-> Unlinked(calls[c].links[1]),
                                     validation |-> validateDocument(LangiumDocument(calls[c].ast[1], 0, 0, <<>>))]>>]
    /\ UNCHANGED <<index, single>>

NextParses ==
    \E c \in Calls :
        \/ CreateDocument(c)
        \/ IndexContent(c)
        \/ Link(c)
        \/ Validate(c)

SpecParses == InitParses /\ [][NextParses]_vars

(***************************************************************************)
(* Properties.                                                             *)
(***************************************************************************)
Parsed == input # <<>> /\ document # <<>>

Built == input = <<>> /\ document # <<>>

AST == document[1].value

GlobalsOf(model) == IF model.global # <<>> THEN model.global[1].parameters ELSE <<>>

\* C1: round trip.  For every syntactically valid document D the text
\* print(parse(D)) parses without lexer or parser errors, and printing that
\* second document gives the same text again.
C1_RoundTrip ==
    roundtrip # <<>> =>
        /\ roundtrip[1].status = "done"
        /\ roundtrip[1].lexerErrors = 0
        /\ roundtrip[1].parserErrors = 0
        /\ roundtrip[1].printed2 = roundtrip[1].printed

\* C2: global merge ordering.  Every resolved page lists the document's global
\* parameters in declared order, tagged "global", followed by the page's own
\* parameters in declared order, tagged "page"; without a global block the
\* page's parameters are exactly its own.
MergedAs(ps, g, own) ==
    /\ Len(ps) = Len(g) + Len(own)
    /\ \A k \in DOMAIN g :
           /\ ps[k].name = g[k].name
           /\ ps[k].optional = (g[k].optional # <<>>)
           /\ ps[k].source = "global"
    /\ \A k \in DOMAIN own :
           /\ ps[Len(g) + k].name = own[k].name
           /\ ps[Len(g) + k].optional = (own[k].optional # <<>>)
           /\ ps[Len(g) + k].source = "page"

C2_GlobalMergeOrdering ==
    (document # <<>> /\ resolved # <<>> /\ resolved[1].ok) =>
        /\ Len(resolved[1].value.pages) = Len(AST.pages)
        /\ \A i \in DOMAIN AST.pages :
               MergedAs(resolved[1].value.pages[i].parameters, GlobalsOf(AST), AST.pages[i].parameters)

C2_Witness ==
    /\ Parsed /\ resolved # <<>> /\ resolved[1].ok
    /\ Len(GlobalsOf(AST)) = 2
    /\ GlobalsOf(AST)[1].name # GlobalsOf(AST)[2].name
    /\ \E i \in DOMAIN AST.pages :
           /\ Len(AST.pages[i].parameters) = 2
           /\ AST.pages[i].parameters[1].name # AST.pages[i].parameters[2].name
           /\ Len(resolved[1].value.pages[i].parameters) = 4

\* The documents the claims on type aliases speak of, read off the source text.
SourceDecl(src, n) ==
    src.paramTypes[CHOOSE i \in DOMAIN src.paramTypes :
                       src.paramTypes[i].name = n /\ \A j \in 1..(i - 1) : src.paramTypes[j].name # n]

SourceGlobals(src) == IF src.global = <<>> THEN <<>> ELSE src.global[1]

SourceNames(src) == {src.paramTypes[i].name : i \in DOMAIN src.paramTypes}

SourceTypes(src) ==
    {src.paramTypes[i].type : i \in DOMAIN src.paramTypes}
    \cup {SourceGlobals(src)[i].type : i \in DOMAIN SourceGlobals(src)}
    \cup UNION {{pg.parameters[i].type : i \in DOMAIN pg.parameters} : pg \in {src.pages[k] : k \in DOMAIN src.pages}}

SourceRefs(src) == {t.id : t \in {u \in SourceTypes(src) : u.expr = "ref"}}

\* chain: the aliases a reference passes through, each declared as a reference to the next.
IsChain(src, chain) ==
    /\ chain # <<>>
    /\ \A i \in DOMAIN chain : chain[i] \in SourceNames(src)
    /\ \A i \in 1..(Len(chain) - 1) :
           /\ SourceDecl(src, chain[i]).type.expr = "ref"
           /\ SourceDecl(src, chain[i]).type.id = chain[i + 1]

Chains(src) == {c \in SeqsUpTo(SourceNames(src), Cardinality(SourceNames(src)) + 1) : IsChain(src, c)}

Cyclic(src) == \E c \in Chains(src) : Len(c) > 1 /\ c[1] = Last(c)

FullyDeclared(src) == SourceRefs(src) \subseteq SourceNames(src)

\* The declared type at the end of the chain that starts at type t.
EndOfChain(src, t) ==
    IF t.expr # "ref" THEN t
    ELSE SourceDecl(src, Last(CHOOSE c \in Chains(src) :
                                  c[1] = t.id /\ SourceDecl(src, Last(c)).type.expr # "ref")).type

\* A resolved type r is the source type t, which is no reference.
Denotes(r, t) ==
    \/ t.expr = "string" /\ r = [kind |-> "string"]
    \/ t.expr = "literal" /\ r.kind = "literal" /\ DOMAIN r = {"kind", "value"} /\ Quoted(r.value) = t.lit
    \/ /\ t.expr = "union" /\ r.kind = "union" /\ DOMAIN r = {"kind", "values"}
       /\ Len(r.values) = Len(t.lits)
       /\ \A i \in DOMAIN t.lits : Quoted(r.values[i]) = t.lits[i]

ResolvedParameters(model) == UNION {{pg.parameters[i] : i \in DOMAIN pg.parameters} : pg \in {model.pages[k] : k \in DOMAIN model.pages}}

\* C3: type alias resolution.  In a parsed document whose alias chains are
\* acyclic and fully declared, resolve terminates with a model in which every
\* type is a string, a literal or a union: each alias, each global parameter
\* and each page parameter carries the declared type at the end of its chain.
C3_TypeAliasResolution ==
    (Parsed /\ resolved # <<>> /\ ~Cyclic(input[1]) /\ FullyDeclared(input[1])) =>
        /\ resolved[1].ok
        /\ LET src == input[1]
               out == resolved[1].value
           IN /\ \A i \in DOMAIN src.paramTypes :
                     Denotes(out.paramTypes[i].type, EndOfChain(src, src.paramTypes[i].type))
              /\ \A k \in DOMAIN src.pages :
                     /\ \A i \in DOMAIN SourceGlobals(src) :
                            Denotes(out.pages[k].parameters[i].type, EndOfChain(src, SourceGlobals(src)[i].type))
                     /\ \A i \in DOMAIN src.pages[k].parameters :
                            Denotes(out.pages[k].parameters[Len(SourceGlobals(src)) + i].type,
                                    EndOfChain(src, src.pages[k].parameters[i].type))
              /\ \A p \in ResolvedParameters(out) : p.type.kind \in {"string", "literal", "union"}

\* A page parameter reaches a union through two aliases.
C3_Witness ==
    /\ Parsed /\ resolved # <<>> /\ resolved[1].ok
    /\ \E c \in Chains(input[1]) :
           /\ Len(c) = 2 /\ c[1] # c[2]
           /\ SourceDecl(input[1], c[2]).type.expr = "union"
           /\ \E k \in DOMAIN input[1].pages : \E i \in DOMAIN input[1].pages[k].parameters :
                  /\ input[1].pages[k].parameters[i].type = TRef(c[1])
                  /\ resolved[1].value.pages[k].parameters[Len(SourceGlobals(input[1])) + i].type.kind = "union"

\* C4: cycle rejection.  When an alias chain of the document is cyclic, resolve
\* fails with a cyclic type reference error; it does not recurse without end.
C4_CycleRejection ==
    (Parsed /\ resolved # <<>> /\ Cyclic(input[1]) /\ FullyDeclared(input[1])) =>
        /\ ~resolved[1].ok
        /\ resolved[1].error.error = "Error"
        /\ resolved[1].error.text = "Cyclic type reference: "

MalformedSegment(seg) == ~(seg.static # <<>> /\ seg.static[1] # <<>>) /\ ~(seg.parameter # <<>> /\ seg.parameter[1] # <<>>)

MalformedPath(model) ==
    \E k \in DOMAIN model.pages :
        /\ model.pages[k].path.root = <<>>
        /\ \E i \in DOMAIN model.pages[k].path.segments : MalformedSegment(model.pages[k].path.segments[i])

\* C6: resolution is all or nothing.  When a document has an undeclared or a
\* cyclic reference or a malformed path segment, resolve returns no model; a
\* model it does return has every declaration and every page of the document.
C6_AllOrNothing ==
    (document # <<>> /\ resolved # <<>>) =>
        /\ (\/ MalformedPath(AST)
            \/ Parsed /\ (Cyclic(input[1]) \/ ~FullyDeclared(input[1]))) =>
               ~resolved[1].ok /\ DOMAIN resolved[1] = {"ok", "error"}
        /\ resolved[1].ok =>
               /\ Len(resolved[1].value.paramTypes) = Len(AST.paramTypes)
               /\ Len(resolved[1].value.pages) = Len(AST.pages)
               /\ \A k \in DOMAIN AST.pages :
                      Len(resolved[1].value.pages[k].parameters)
                          = Len(GlobalsOf(AST)) + Len(AST.pages[k].parameters)

\* The declarations resolve, a path segment of the page is malformed.
C6_Witness ==
    /\ Built /\ resolved # <<>>
    /\ AST.paramTypes # <<>>
    /\ MalformedPath(AST)
    /\ ~resolved[1].ok
    /\ resolved[1].error.text = "Invalid path segment"

\* The document the parser would have produced: its references are linked.
LinkedType(t) == IF t.astType = "TypeReference" THEN [t EXCEPT !.ref.linked = TRUE] ELSE t

LinkedParameter(p) == [p EXCEPT !.type = LinkedType(p.type)]

LinkedParameters(ps) == [i \in DOMAIN ps |-> LinkedParameter(ps[i])]

LinkedGlobal(g) == [g EXCEPT !.parameters = LinkedParameters(g.parameters)]

LinkedPage(pg) == [pg EXCEPT !.parameters = LinkedParameters(pg.parameters)]

Linked(doc) ==
    [doc EXCEPT !.value.paramTypes = [i \in DOMAIN doc.value.paramTypes |-> LinkedParameter(doc.value.paramTypes[i])],
                !.value.global = [i \in DOMAIN doc.value.global |-> LinkedGlobal(doc.value.global[i])],
                !.value.pages = [i \in DOMAIN doc.value.pages |-> LinkedPage(doc.value.pages[i])]]

ParameterTypes(model) ==
    {GlobalsOf(model)[i].type : i \in DOMAIN GlobalsOf(model)}
    \cup UNION {{pg.parameters[i].type : i \in DOMAIN pg.parameters} : pg \in {model.pages[k] : k \in DOMAIN model.pages}}

\* C7: builder output is interchangeable with parser output.  For a document
\* built with the AST builder in which a parameter's type refers to a declared
\* alias, resolve returns what it returns for the parsed document: the
\* parameter has the alias's declared type.
C7_BuilderInterchangeable ==
    (/\ Built /\ resolved # <<>>
     /\ ~MalformedPath(AST)
     /\ \A i \in DOMAIN AST.paramTypes : AST.paramTypes[i].type.astType # "TypeReference"
     /\ \E t \in ParameterTypes(AST) :
            t.astType = "TypeReference" /\ \E i \in DOMAIN AST.paramTypes : AST.paramTypes[i].name = t.ref.refText) =>
        /\ resolved[1].ok
        /\ resolved[1] = resolve(Linked(document[1]))

Diagnostics == document[1].diagnostics

PathErrors(node) == SelectSeq(Diagnostics, LAMBDA d : d.code = "pathParameter" /\ d.node = node)

NamingErrors(node) == SelectSeq(Diagnostics, LAMBDA d : d.code \in {"pageNaming", "paramTypeNaming"} /\ d.node = node)

\* The :name segments of a page's path that its parameter block does not declare.
Undeclared(pg) ==
    {pg.path[j].id : j \in {j \in DOMAIN pg.path : pg.path[j].atom = "param"}}
    \ {pg.parameters[j].name : j \in DOMAIN pg.parameters}

\* C8: path-parameter coverage.  For every page the validator reports as many
\* path parameter errors as the path has distinct :name segments that the
\* page's own parameter block does not declare, one naming each of them, and
\* none when every path parameter is declared.
C8_PathParameterCoverage ==
    Parsed =>
        \A i \in DOMAIN input[1].pages :
            LET errors == PathErrors(<<"pages", i>>)
            IN /\ Len(errors) = Cardinality(Undeclared(input[1].pages[i]))
               /\ {errors[k].name : k \in DOMAIN errors} = Undeclared(input[1].pages[i])
               /\ \A k \in DOMAIN errors : errors[k].severity = "error"

\* One undeclared parameter that the path names twice, next to a declared parameter.
C8_Witness ==
    /\ Parsed
    /\ \E i \in DOMAIN input[1].pages :
           /\ input[1].pages[i].path = <<Param(S_job_id), Param(S_job_id)>>
           /\ input[1].pages[i].parameters # <<>>
           /\ Undeclared(input[1].pages[i]) = {S_job_id}
           /\ Len(PathErrors(<<"pages", i>>)) = 1

\* The names of the documents that match ^[a-z][a-zA-Z0-9]*$, and those that
\* do not: an upper-case first letter, or an underscore.
CamelCaseNames == {S_list, S_v2, S_sortOrder, S_jobStatus}

OtherNames == {S_Detail, S_detail_view, S_Sort_Order}

NamingErrorsFor(name, node) ==
    /\ name \in CamelCaseNames \cup OtherNames
    /\ Len(NamingErrors(node)) = (IF name \in CamelCaseNames THEN 0 ELSE 1)
    /\ \A k \in DOMAIN NamingErrors(node) :
           NamingErrors(node)[k].severity = "error" /\ NamingErrors(node)[k].property = "name"

Casings == [CasedNames -> CasedNames]

RecasedName(n, f) == IF n \in CasedNames THEN f[n] ELSE n

RecasedEntries(es, f) == [i \in DOMAIN es |-> [es[i] EXCEPT !.name = RecasedName(es[i].name, f)]]

RecasedAtom(a, f) == IF a.atom = "param" THEN [a EXCEPT !.id = RecasedName(a.id, f)] ELSE a

RecasedPage(pg, f) ==
    [pg EXCEPT !.path = [i \in DOMAIN pg.path |-> RecasedAtom(pg.path[i], f)],
               !.parameters = RecasedEntries(pg.parameters, f)]

Recased(src, f) ==
    [src EXCEPT !.global = [i \in DOMAIN src.global |-> RecasedEntries(src.global[i], f)],
                !.pages = [i \in DOMAIN src.pages |-> RecasedPage(src.pages[i], f)]]

PathParametersDeclared(src) == \A i \in DOMAIN src.pages : Undeclared(src.pages[i]) = {}

NamingDue(name) == IF name \in CamelCaseNames THEN 0 ELSE 1

RECURSIVE ErrorsDue(_, _)
ErrorsDue(src, k) ==
    IF k = 0 THEN 0
    ELSE IF k <= Len(src.paramTypes)
    THEN NamingDue(src.paramTypes[k].name) + ErrorsDue(src, k - 1)
    ELSE NamingDue(src.pages[k - Len(src.paramTypes)].name)
         + Cardinality(Undeclared(src.pages[k - Len(src.paramTypes)]))
         + ErrorsDue(src, k - 1)

ErrorsOf(node) == SelectSeq(Diagnostics, LAMBDA d : d.node = node)

TextOf(comment) ==
    IF comment = K_a THEN <<"a">>
    ELSE IF comment = K_b THEN <<"b">>
    ELSE <<>>

\* The contiguous run of comment lines that ends the lines before a declaration.
RECURSIVE CommentRun(_)
CommentRun(lines) ==
    IF lines = <<>> \/ lines[Len(lines)].line # "comment" THEN <<>>
    ELSE Append(CommentRun(SubSeq(lines, 1, Len(lines) - 1)), lines[Len(lines)].text)

RECURSIVE RunText(_)
RunText(run) ==
    IF Len(run) = 1 THEN TextOf(run[1])
    ELSE RunText(SubSeq(run, 1, Len(run) - 1)) \o <<"\n">> \o TextOf(run[Len(run)])

HasComment(lines) == \E i \in DOMAIN lines : lines[i].line = "comment"

\* Every declaration of the resolved document that can carry a description:
\* the description it got and the lines before it in the source.
Described ==
    LET src == input[1]
        out == resolved[1].value
        nGlobals == Len(SourceGlobals(src))
    IN {<<out.paramTypes[i].description, Leading(src.paramTypes[i]), "param type">> : i \in DOMAIN src.paramTypes}
       \cup {<<out.pages[k].description, Leading(src.pages[k]), "page">> : k \in DOMAIN src.pages}
       \cup UNION {{<<out.pages[k].parameters[nGlobals + i].description, Leading(src.pages[k].parameters[i]), "parameter">> :
                       i \in DOMAIN src.pages[k].parameters} : k \in DOMAIN src.pages}
       \cup UNION {{<<out.pages[k].parameters[i].description, Leading(SourceGlobals(src)[i]), "parameter">> :
                       i \in DOMAIN SourceGlobals(src)} : k \in DOMAIN src.pages}

Extracted == Parsed /\ resolved # <<>> /\ resolved[1].ok

\* C12: description extraction.  A declaration immediately preceded by a
\* contiguous run of line comments has as its description the texts of exactly
\* those comments, without marker and surrounding white space, in source order
\* and joined by newlines; comments an empty line away from the run are left out.
C12_DescriptionExtraction ==
    Extracted =>
        \A d \in Described :
            CommentRun(d[2]) # <<>> => d[1] = <<RunText(CommentRun(d[2]))>>

\* C13: a blank line between a comment block and the declaration after it
\* breaks the association: the declaration has no description.
C13_BlankLineBreaks ==
    Extracted =>
        \A d \in Described :
            (d[2] # <<>> /\ d[2][Len(d[2])].line = "blank" /\ HasComment(d[2])) => d[1] = <<>>

\* C14: a declaration with no line comment before it has no description; the
\* first entry of a page or global block does not get the comment that
\* precedes the block.
C14_NoCommentNoDescription ==
    Extracted =>
        \A d \in Described : ~HasComment(d[2]) => d[1] = <<>>

\* The resolved segment the source gives for one path atom.
AtomSegment(a) ==
    IF a.atom = "static" THEN [type |-> "static", value |-> a.text]
    ELSE [type |-> "parameter", value |-> a.id]

\* The same for one non-empty part of a builder path string.
PartSegment(part) ==
    IF Head(part) = ":" THEN [type |-> "parameter", value |-> Tail(part)]
    ELSE [type |-> "static", value |-> part]

Plain(value) == \A i \in DOMAIN value : value[i] \notin {"/", ":"}

\* C15: path reconstruction.  A page with at least one segment resolves to the
\* path made of "/" + text for each static segment and "/:" + name for each
\* parameter segment, in order, and pathSegments holds one entry per segment, in
\* order, tagged static or parameter, whose value has no slash and no colon.
C15_PathReconstruction ==
    /\ (Parsed /\ resolved # <<>> /\ resolved[1].ok) =>
           \A k \in DOMAIN input[1].pages :
               LET atoms == input[1].pages[k].path
                   page == resolved[1].value.pages[k]
               IN atoms # <<>> =>
                      /\ page.path = Flatten(SeqMap(atomText, atoms))
                      /\ page.pathSegments = SeqMap(AtomSegment, atoms)
                      /\ \A i \in DOMAIN page.pathSegments : Plain(page.pathSegments[i].value)
    /\ (input = <<>> /\ document # <<>> /\ resolved # <<>> /\ resolved[1].ok) =>
           \A k \in DOMAIN pages :
               LET parts == NonEmptyParts(pages[k].path)
                   page == resolved[1].value.pages[k]
               IN (pages[k].path # <<"/">> /\ parts # <<>>) =>
                      /\ page.path = Flatten(SeqMap(LAMBDA part : <<"/">> \o part, parts))
                      /\ page.pathSegments = SeqMap(PartSegment, parts)
                      /\ \A i \in DOMAIN page.pathSegments : Plain(page.pathSegments[i].value)

C15_Witness ==
    /\ Parsed /\ resolved # <<>> /\ resolved[1].ok
    /\ input[1].pages[1].path = <<Static(S_jobs), Param(S_job_id)>>
    /\ resolved[1].value.pages[1].path = P_detail
    /\ Len(resolved[1].value.pages[1].pathSegments) = 2

\* C16: a page whose path has no segments resolves to the path "/" and an
\* empty pathSegments list, for a parsed root path as for a builder page whose
\* path string has no non-empty part.
C16_RootPath ==
    /\ (Parsed /\ resolved # <<>> /\ resolved[1].ok) =>
           \A k \in DOMAIN input[1].pages :
               input[1].pages[k].path = <<>> =>
                   /\ resolved[1].value.pages[k].path = <<"/">>
                   /\ resolved[1].value.pages[k].pathSegments = <<>>
    /\ (input = <<>> /\ document # <<>> /\ resolved # <<>> /\ resolved[1].ok) =>
           \A k \in DOMAIN pages :
               NonEmptyParts(pages[k].path) = <<>> =>
                   /\ resolved[1].value.pages[k].path = <<"/">>
                   /\ resolved[1].value.pages[k].pathSegments = <<>>

\* The sections of a document in the order of the serialization: the endpoint
\* declaration, the param type declarations, the global block, one section per
\* page.  Each section is a sequence of lines.
Sections(model) ==
    (IF "endpoint" \in DOMAIN model THEN <<<<endpointText(model.endpoint)>>>> ELSE <<>>)
    \o (IF Len(model.paramTypes) > 0 THEN <<SeqMap(printParamType, model.paramTypes)>> ELSE <<>>)
    \o (IF model.global # <<>>
        THEN <<<<T_global_open>> \o SeqMap(indented, model.global[1].parameters) \o <<<<"}">>>>>>
        ELSE <<>>)
    \o SeqMap(LAMBDA page : <<printPage(page)>>, model.pages)

\* The lines of the sections with one empty line between consecutive sections.
RECURSIVE SectionLines(_)
SectionLines(sections) ==
    IF Len(sections) = 0 THEN <<>>
    ELSE IF Len(sections) = 1 THEN sections[1]
    ELSE sections[1] \o <<<<>>>> \o SectionLines(Tail(sections))

\* C17: printer serialization order.  print emits the endpoint declaration
\* first when the document has one, then the param type declarations in
\* document order, then the global block if present, then the page
\* declarations in document order, with exactly one blank line between
\* consecutive sections.
C17_SerializationOrder ==
    (Parsed /\ printed # <<>>) =>
        /\ printed[1].ok
        /\ printed[1].value = Join(SectionLines(Sections(document[1].value)), <<NL>>) \o <<NL>>

\* C18: the resolved model carries the endpoint of the document: it is the
\* declared URL when the document declares one and absent otherwise.
C18_ResolvedEndpoint ==
    (Parsed /\ resolved # <<>> /\ resolved[1].ok) =>
        IF Endpoint(input[1]) # <<>>
        THEN "endpoint" \in DOMAIN resolved[1].value /\ resolved[1].value.endpoint = input[1].endpoint
        ELSE "endpoint" \notin DOMAIN resolved[1].value

\* What a parse() call gives for a source on services that hold no other document.
OwnLinks(c, ast) ==
    [name \in ReferencesOf(ast) |->
        IF name \in DeclaredNames(ast.paramTypes) THEN <<[uri |-> c, name |-> name]>> ELSE <<>>]

\* C19: concurrent parses are independent.  When two parse calls on different
\* inputs interleave at their await points on the shared services, each returns
\* a document whose AST, reference targets included, and diagnostics are those
\* of its own input only.
C19_IndependentParses ==
    \A c \in DOMAIN calls :
        calls[c].pc = "done" =>
            LET ast == parseDocument(calls[c].src, whitespace)
            IN /\ calls[c].ast = <<ast>>
               /\ calls[c].links = <<OwnLinks(c, ast)>>
               /\ calls[c].diagnostics =
                      <<[linking |-> Unlinked(OwnLinks(c, ast)),
                         validation |-> validateDocument(LangiumDocument(ast, 0, 0, <<>>))]>>

\* The directories from the root down to the place a path resolves to.
Location(path) ==
    normalizeString(SplitSlash(IF isAbsolute(path) THEN path ELSE Cwd \o <<"/">> \o path, <<>>), <<>>, FALSE)

\* The place is the directory or lies below it.
Within(path, dir) ==
    /\ Len(Location(dir)) <= Len(Location(path))
    /\ SubSeq(Location(path), 1, Len(Location(dir))) = Location(dir)

\* C20: writeFile with options.allowedBaseDir rejects with the error 'outside
\* allowed directory' every path that resolves to a place outside the allowed
\* base directory, and its validation accepts every path inside it.
C20_AllowedBaseDir ==
    (written # <<>> /\ written[1].allowedBaseDir # <<>>) =>
        IF Within(written[1].path, written[1].allowedBaseDir[1])
        THEN written[1].valid.ok
        ELSE /\ ~written[1].result.ok
             /\ written[1].result.error.text = "outside allowed directory"

\* The place a path resolves to is one of the sensitive directories or below one.
Sensitive(path) == \E dir \in sensitiveDirectories : Within(path, dir)

Repeats(decls) == \E i, j \in DOMAIN decls : i # j /\ decls[i].name = decls[j].name

\* C22: validation detects duplicate names.  A document with two page
\* declarations of the same name, or with two parameters of the same name in
\* one page, has at least one diagnostic.
C22_DuplicateNames ==
    Parsed =>
        ((Repeats(input[1].pages) \/ \E k \in DOMAIN input[1].pages : Repeats(input[1].pages[k].parameters))
            => Len(document[1].diagnostics) >= 1)

\* The calls of one kind among the calls made on the builder, in call order.
CallsOf(op) == SelectSeq(history, LAMBDA call : call.op = op)

\* C23: builder ordering.  After any sequence of addPage and addGlobalParam
\* calls, toAST lists the pages in addPage call order and the global
\* parameters in addGlobalParam call order, and the document has a global
\* block if and only if at least one addGlobalParam call was made.
C23_BuilderOrdering ==
    document # <<>> =>
        LET ast == document[1].value
            pageCalls == CallsOf("addPage")
            globalCalls == CallsOf("addGlobalParam")
        IN /\ Len(ast.pages) = Len(pageCalls)
           /\ \A k \in DOMAIN pageCalls :
                  /\ ast.pages[k].name = pageCalls[k].page.name
                  /\ ast.pages[k].path = parsePath(pageCalls[k].page.path)
           /\ (ast.global # <<>>) <=> (Len(globalCalls) > 0)
           /\ ast.global # <<>> =>
                  /\ Len(ast.global[1].parameters) = Len(globalCalls)
                  /\ \A i \in DOMAIN globalCalls :
                         ast.global[1].parameters[i].name = globalCalls[i].param.name

C23_Witness ==
    /\ document # <<>>
    /\ Len(CallsOf("addPage")) = 2
    /\ CallsOf("addPage")[1].page # CallsOf("addPage")[2].page
    /\ Len(CallsOf("addGlobalParam")) = 1
    /\ Len(document[1].value.pages) = 2
    /\ document[1].value.global # <<>>

\* The declaration a param type's own type refers to, by name.
ReferredBy(decls, name) ==
    LET decl == FirstDeclaration(decls, name)
    IN IF decl.type.astType = "TypeReference" /\ decl.type.ref.refText \in DeclaredNames(decls)
       THEN <<decl.type.ref.refText>>
       ELSE <<>>

\* Following the references from `current` comes to `start` within `steps` steps.
RECURSIVE ReturnsTo(_, _, _, _)
ReturnsTo(decls, start, current, steps) ==
    /\ steps > 0
    /\ ReferredBy(decls, current) # <<>>
    /\ \/ ReferredBy(decls, current)[1] = start
       \/ ReturnsTo(decls, start, ReferredBy(decls, current)[1], steps - 1)

\* C24: for every sequence of addParamType calls, the document returned by
\* toAST has no param type declaration whose chain of type references returns
\* to itself, directly or through other declarations.
C24_BuilderNoReferenceCycle ==
    document # <<>> =>
        LET decls == document[1].value.paramTypes
        IN \A name \in DeclaredNames(decls) : ~ReturnsTo(decls, name, name, Len(decls))

\* What the caller reads through the parameters list of page k and through
\* the global list of a resolved model.
ParametersOf(m, k) == [i \in DOMAIN m.pages[k] |-> m.objects[m.pages[k][i]]]

GlobalOf(m) == IF m.global = <<>> THEN <<>> ELSE <<[i \in DOMAIN m.global[1] |-> m.objects[m.global[1][i]]]>>

\* C25: the resolved model is made of independent values.  Changing a
\* parameter entry reached through the parameters list of one resolved page
\* changes neither an entry of another page's parameters nor the global list
\* of the model.
C25_IndependentValues ==
    (held # <<>> /\ held[1].changed # <<>>) =>
        LET before == resolveObjects(resolved[1].value)
        IN /\ \A k \in DOMAIN held[1].pages :
                  k # held[1].changed[1] => ParametersOf(held[1], k) = ParametersOf(before, k)
           /\ GlobalOf(held[1]) = GlobalOf(before)

NamesOf(entries) == {entries[i].name : i \in DOMAIN entries}

PathParameterNames(pg) == {pg.path[i].id : i \in {j \in DOMAIN pg.path : pg.path[j].atom = "param"}}

\* C26: declaring the name of a path parameter only in the global block does
\* not satisfy the path parameter check: the page gets the undeclared path
\* parameter error for the name unless a parameter of exactly that name is in
\* the page's own block.
C26_GlobalDoesNotDeclare ==
    Parsed =>
        \A i \in DOMAIN input[1].pages :
            \A n \in PathParameterNames(input[1].pages[i]) \cap NamesOf(SourceGlobals(input[1])) :
                (\E k \in DOMAIN PathErrors(<<"pages", i>>) : PathErrors(<<"pages", i>>)[k].name = n)
                    <=> n \notin NamesOf(input[1].pages[i].parameters)

C26_Witness ==
    /\ Parsed
    /\ S_job_id \in NamesOf(SourceGlobals(input[1]))
    /\ S_job_id \in PathParameterNames(input[1].pages[1])
    /\ S_job_id \notin NamesOf(input[1].pages[1].parameters)
    /\ \E k \in DOMAIN PathErrors(<<"pages", 1>>) : PathErrors(<<"pages", 1>>)[k].name = S_job_id

\* The names registered by the addParamType calls made so far.
Registered == {history[i].name : i \in {j \in DOMAIN history : history[j].op = "addParamType"}}

\* A string type other than "string" is built as a reference exactly when it
\* is a registered name, and as a string literal otherwise.
ClassifiedByName(type, built) ==
    (type.js = "string" /\ type.str # S_string) =>
        /\ built.astType = (IF type.str \in Registered THEN "TypeReference" ELSE "StringLiteralType")
        /\ built.astType = "TypeReference" => built.ref.refText = type.str
        /\ built.astType = "StringLiteralType" => built.value = type.str

FirstCalls == Distinct(SeqMap(LAMBDA call : call.name, CallsOf("addParamType")))

LastCall(name) ==
    LET calls_ == CallsOf("addParamType")
    IN calls_[CHOOSE i \in DOMAIN calls_ :
                  calls_[i].name = name /\ \A j \in (i + 1)..Len(calls_) : calls_[j].name # name]

\* C28: after any sequence of addParamType calls, toAST().paramTypes holds
\* exactly one declaration per distinct name, at the position of the first
\* call for the name and with the type given in the last call for it.
C28_OneDeclarationPerName ==
    document # <<>> =>
        LET decls == document[1].value.paramTypes
        IN /\ Len(decls) = Len(FirstCalls)
           /\ \A i \in DOMAIN decls :
                  /\ decls[i].name = FirstCalls[i]
                  /\ decls[i].type = buildType(paramTypes, LastCall(FirstCalls[i]).type)

\* Three calls: a name, another name, the first name again with another type.
C28_Witness ==
    /\ document # <<>>
    /\ Len(CallsOf("addParamType")) = 3
    /\ history[1].name = history[3].name
    /\ history[1].name # history[2].name
    /\ history[1].type # history[3].type
    /\ Len(document[1].value.paramTypes) = 2
    /\ document[1].value.paramTypes[1].name = history[1].name

\* The builder's fields after the add operations of a call sequence alone.
RECURSIVE Replay(_)
Replay(h) ==
    IF h = <<>> THEN <<<<>>, <<>>, <<>>>>
    ELSE LET before == Replay(Front(h))
             call == Last(h)
         IN CASE call.op = "addParamType" ->
                    <<addParamType(before[1], call.name, call.type), before[2], before[3]>>
              [] call.op = "addGlobalParam" ->
                    <<before[1], addGlobalParam(before[2], call.param), before[3]>>
              [] call.op = "addPage" ->
                    <<before[1], before[2], addPage(before[3], call.page)>>

\* C29: toAST and toString leave the builder's state unchanged: the fields are
\* those the add operations alone produce, wherever toAST and toString calls
\* were inserted, and the outcome of every toAST and toString call is the one
\* of a builder that has only seen the add operations.
C29_ReadsLeaveBuilderUnchanged ==
    LET fresh == Replay(history)
    IN /\ builder = fresh
       /\ document # <<>> => document[1] = wrapAST(toAST(fresh[1], fresh[2], fresh[3]))
       /\ printed # <<>> => printed[1] = toString(fresh[1], fresh[2], fresh[3])

\* toAST or toString was called between the first two add operations, and both
\* were called again after the last one.
C29_Witness ==
    /\ Len(history) = MaxCalls
    /\ ~history[1].observed
    /\ history[2].observed
    /\ \E i, j \in DOMAIN history : history[i].op # history[j].op
    /\ document # <<>>
    /\ printed # <<>>

\* The names of the parameter segments of a resolved page, and the names of the
\* parameters resolve has tagged as the page's own.
ParameterSegments(pg) ==
    {pg.pathSegments[i].value : i \in {j \in DOMAIN pg.pathSegments : pg.pathSegments[j].type = "parameter"}}

OwnParameters(pg) ==
    {pg.parameters[i].name : i \in {j \in DOMAIN pg.parameters : pg.parameters[j].source = "page"}}

\* C30: validator and resolver agree on path parameters: when validation
\* reports no path parameter error for a page, every pathSegment of type
\* "parameter" of that page in resolve's output has a parameter of the same
\* name and of source "page" in the page's parameters list.
C30_ValidatorResolverAgree ==
    (Parsed /\ resolved # <<>> /\ resolved[1].ok) =>
        \A i \in DOMAIN resolved[1].value.pages :
            PathErrors(<<"pages", i>>) = <<>> =>
                ParameterSegments(resolved[1].value.pages[i]) \subseteq OwnParameters(resolved[1].value.pages[i])

\* A page without path parameter error whose path parameter is declared both
\* in the global block and in the page's own block.
C30_Witness ==
    /\ Parsed /\ resolved # <<>> /\ resolved[1].ok
    /\ \E i \in DOMAIN resolved[1].value.pages :
           LET pg == resolved[1].value.pages[i]
           IN /\ PathErrors(<<"pages", i>>) = <<>>
              /\ ParameterSegments(pg) # {}
              /\ \E k \in DOMAIN pg.parameters :
                     pg.parameters[k].source = "global" /\ pg.parameters[k].name \in ParameterSegments(pg)

====
